---- MODULE Spec2Model ----
(***************************************************************************)
(* topology_connect: the authentication handshake of ConnectPExpectShell   *)
(* (shell.py) and the firmware burn of OpenswitchNode (nodes/openswitch.py)*)
(* as a state machine.  One step per blocking channel operation: a send    *)
(* together with the wait that follows it, whose answer (a matched pattern *)
(* or a timeout) is the channel's choice.                                  *)
(***************************************************************************)
EXTENDS Integers, Sequences, FiniteSets, TLC

VARIABLES
    image_load_status, \* the module-level list of already burned IPs
    attrs,             \* node -> the declared attributes of the device
    pc,                \* node -> position of its constructor
    fail,              \* node -> the stage and reason of the exception raised
    log,               \* node -> the channel operations of its workflow
    started,           \* the nodes in the order their constructors were entered
    conn,              \* node -> the connect() call in progress (handshake)
    serial,            \* node -> the OpenswitchSerialShell of _burn_image
    vtysh,             \* node -> the OpenswitchVtyShell of the node
    frame,             \* node -> the locals of its _burn_image call
    reboots,           \* node -> calls of the external reboot command
    shells,            \* node -> the names registered in self._shells
    bash,              \* node -> its SshBashShell objects: name -> connected
    ports,             \* node -> the interfaces bring_port_up was called for
    ssh                \* the fields of an SshMixin and the command it builds

\* What start(), stop(), bring_port_up() and the SSH command work on.
node == <<shells, bash, ports, ssh>>

vars == <<image_load_status, attrs, pc, fail, log, started, conn, serial,
          vtysh, frame, reboots, node>>

Nodes == {"sw1", "sw2"}

(***************************************************************************)
(* The handshake: ConnectPExpectShell._setup_shell, run by connect().      *)
(***************************************************************************)

\* A connect() call that is not running.
NoConn ==
    [step |-> "idle", shell |-> "none", user |-> FALSE, password |-> FALSE,
     initial_command |-> FALSE, sent |-> <<>>, seen |-> <<>>]

\* shell.py:59, 83, 97: the next wait of _setup_shell that applies.
AfterStep2(c) == IF c.initial_command THEN "initial" ELSE "prompt"

\* A declared password without its race.
AfterStep1_without_race(c) == AfterStep2(c)

AfterStep1(c) == IF c.password THEN "step2" ELSE AfterStep2(c)

AfterPre(c) == IF c.user THEN "step1" ELSE AfterStep1(c)

\* The first step of connect(): only the serial shell overrides
\* _pre_setup_shell with something that touches the channel.
FirstStep(c) == IF c.shell = "serial" THEN "pre" ELSE AfterPre(c)

Sent(c, what) == Append(c.sent, [step |-> c.step, data |-> what])

Seen(c, what) == Append(c.seen, [step |-> c.step, got |-> what])

\* An expect() that raised: nothing more is sent, connect() raises.
Raised(c, what) == [c EXCEPT !.step = "fail", !.seen = Seen(c, what)]

\* The console taken for a login prompt when nothing was recognised before
\* the bootup timeout.
pre_setup_shell_timeout_ignored(d) ==
    /\ conn[d].step = "pre"
    /\ LET c == [conn[d] EXCEPT !.sent = Sent(conn[d], "newline")]
       IN \/ conn' = [conn EXCEPT ![d] = [c EXCEPT
                 !.step = AfterPre(c), !.seen = Seen(c, "login"),
                 !.sent = Sent(c, "newline")]]
          \/ conn' = [conn EXCEPT ![d] = [c EXCEPT
                 !.step = AfterPre(c), !.seen = Seen(c, "onie"),
                 !.sent = Sent(c, "reboot") \o
                          <<[step |-> c.step, data |-> "sleep bootup"]>>]]
          \/ conn' = [conn EXCEPT ![d] = [c EXCEPT
                 !.step = AfterPre(c), !.seen = Seen(c, "serial_prompt"),
                 !.sent = Sent(c, "ctrl-d")]]
          \/ conn' = [conn EXCEPT ![d] = [c EXCEPT
                 !.step = AfterPre(c), !.seen = Seen(c, "vtysh_prompt"),
                 !.sent = Sent(c, "ctrl-d") \o
                          <<[step |-> c.step, data |-> "ctrl-d"]>>]]
          \/ conn' = [conn EXCEPT ![d] = [c EXCEPT
                 !.step = AfterPre(c), !.seen = Seen(c, "timeout"),
                 !.sent = Sent(c, "newline")]]
    /\ UNCHANGED <<image_load_status, attrs, pc, fail, log, started, serial,
                   vtysh, frame, reboots, node>>

\* OpenswitchSerialShell._pre_setup_shell, shell.py:379-409: press Enter,
\* classify the console within the bootup timeout, answer the state found.
\* The sleep of the bootup duration behind the reboot command is recorded
\* where it happens among the sends.
pre_setup_shell(d) ==
    /\ conn[d].step = "pre"
    /\ LET c == [conn[d] EXCEPT !.sent = Sent(conn[d], "newline")]
       IN \/ conn' = [conn EXCEPT ![d] = [c EXCEPT
                 !.step = AfterPre(c), !.seen = Seen(c, "login"),
                 !.sent = Sent(c, "newline")]]
          \/ conn' = [conn EXCEPT ![d] = [c EXCEPT
                 !.step = AfterPre(c), !.seen = Seen(c, "onie"),
                 !.sent = Sent(c, "reboot") \o
                          <<[step |-> c.step, data |-> "sleep bootup"]>>]]
          \/ conn' = [conn EXCEPT ![d] = [c EXCEPT
                 !.step = AfterPre(c), !.seen = Seen(c, "serial_prompt"),
                 !.sent = Sent(c, "ctrl-d")]]
          \/ conn' = [conn EXCEPT ![d] = [c EXCEPT
                 !.step = AfterPre(c), !.seen = Seen(c, "vtysh_prompt"),
                 !.sent = Sent(c, "ctrl-d") \o
                          <<[step |-> c.step, data |-> "ctrl-d"]>>]]
          \/ conn' = [conn EXCEPT ![d] = Raised(c, "timeout")]
    /\ UNCHANGED <<image_load_status, attrs, pc, fail, log, started, serial,
                   vtysh, frame, reboots, node>>


\* The password prompt of the race left to the race of step 2: nothing is
\* sent for it here.
setup_shell_user_password_deferred(d) ==
    /\ conn[d].step = "step1"
    /\ LET c == conn[d]
       IN \/ conn' = [conn EXCEPT ![d] = [c EXCEPT
                 !.step = AfterStep1(c), !.seen = Seen(c, "user"),
                 !.sent = Sent(c, "user")]]
          \/ conn' = [conn EXCEPT ![d] = [c EXCEPT
                 !.step = AfterStep1(c), !.seen = Seen(c, "initial"),
                 !.sent = Sent(c, "newline")]]
          \/ conn' = [conn EXCEPT ![d] = [c EXCEPT
                 !.step = AfterStep1(c), !.seen = Seen(c, "password")]]
          \/ conn' = [conn EXCEPT ![d] = Raised(c, "timeout")]
    /\ UNCHANGED <<image_load_status, attrs, pc, fail, log, started, serial,
                   vtysh, frame, reboots, node>>

\* The race with its timeout caught: the else branch at shell.py:77-80.
setup_shell_user_timeout_caught(d) ==
    /\ conn[d].step = "step1"
    /\ LET c == conn[d]
       IN \/ conn' = [conn EXCEPT ![d] = [c EXCEPT
                 !.step = AfterStep1(c), !.seen = Seen(c, "user"),
                 !.sent = Sent(c, "user")]]
          \/ conn' = [conn EXCEPT ![d] = [c EXCEPT
                 !.step = AfterStep1(c), !.seen = Seen(c, "initial"),
                 !.sent = Sent(c, "newline")]]
          \/ /\ c.password
             /\ conn' = [conn EXCEPT ![d] = [c EXCEPT
                 !.step = AfterStep1(c), !.seen = Seen(c, "password"),
                 !.sent = Sent(c, "password")]]
          \/ /\ ~c.password
             /\ conn' = [conn EXCEPT ![d] = Raised(c, "password")]
          \/ conn' = [conn EXCEPT ![d] = [c EXCEPT
                 !.step = AfterStep1(c), !.seen = Seen(c, "timeout")]]
    /\ UNCHANGED <<image_load_status, attrs, pc, fail, log, started, serial,
                   vtysh, frame, reboots, node>>

\* The race with the password prompt answered whether a password was
\* declared or not.
setup_shell_user_password_undeclared(d) ==
    /\ conn[d].step = "step1"
    /\ LET c == conn[d]
       IN \/ conn' = [conn EXCEPT ![d] = [c EXCEPT
                 !.step = AfterStep1(c), !.seen = Seen(c, "user"),
                 !.sent = Sent(c, "user")]]
          \/ conn' = [conn EXCEPT ![d] = [c EXCEPT
                 !.step = AfterStep1(c), !.seen = Seen(c, "initial"),
                 !.sent = Sent(c, "newline")]]
          \/ conn' = [conn EXCEPT ![d] = [c EXCEPT
                 !.step = AfterStep1(c), !.seen = Seen(c, "password"),
                 !.sent = Sent(c, "password")]]
          \/ conn' = [conn EXCEPT ![d] = Raised(c, "timeout")]
    /\ UNCHANGED <<image_load_status, attrs, pc, fail, log, started, serial,
                   vtysh, frame, reboots, node>>

\* shell.py:59-80: the race of the user prompt, the initial prompt and the
\* password prompt.  sendline(None) raises before anything is written.
setup_shell_user(d) ==
    /\ conn[d].step = "step1"
    /\ LET c == conn[d]
       IN \/ conn' = [conn EXCEPT ![d] = [c EXCEPT
                 !.step = AfterStep1(c), !.seen = Seen(c, "user"),
                 !.sent = Sent(c, "user")]]
          \/ conn' = [conn EXCEPT ![d] = [c EXCEPT
                 !.step = AfterStep1(c), !.seen = Seen(c, "initial"),
                 !.sent = Sent(c, "newline")]]
          \/ /\ c.password
             /\ conn' = [conn EXCEPT ![d] = [c EXCEPT
                 !.step = AfterStep1(c), !.seen = Seen(c, "password"),
                 !.sent = Sent(c, "password")]]
          \/ /\ ~c.password
             /\ conn' = [conn EXCEPT ![d] = Raised(c, "password")]
          \/ conn' = [conn EXCEPT ![d] = Raised(c, "timeout")]
    /\ UNCHANGED <<image_load_status, attrs, pc, fail, log, started, serial,
                   vtysh, frame, reboots, node>>

\* The race with the password sent for either prompt.
setup_shell_password_always_sent(d) ==
    /\ conn[d].step = "step2"
    /\ LET c == conn[d]
       IN \/ conn' = [conn EXCEPT ![d] = [c EXCEPT
                 !.step = AfterStep2(c), !.seen = Seen(c, "password"),
                 !.sent = Sent(c, "password")]]
          \/ conn' = [conn EXCEPT ![d] = [c EXCEPT
                 !.step = AfterStep2(c), !.seen = Seen(c, "initial"),
                 !.sent = Sent(c, "password")]]
          \/ conn' = [conn EXCEPT ![d] = Raised(c, "timeout")]
    /\ UNCHANGED <<image_load_status, attrs, pc, fail, log, started, serial,
                   vtysh, frame, reboots, node>>

\* shell.py:83-91: the race of the password prompt and the initial prompt.
setup_shell_password(d) ==
    /\ conn[d].step = "step2"
    /\ LET c == conn[d]
       IN \/ conn' = [conn EXCEPT ![d] = [c EXCEPT
                 !.step = AfterStep2(c), !.seen = Seen(c, "password"),
                 !.sent = Sent(c, "password")]]
          \/ conn' = [conn EXCEPT ![d] = [c EXCEPT
                 !.step = AfterStep2(c), !.seen = Seen(c, "initial"),
                 !.sent = Sent(c, "newline")]]
          \/ conn' = [conn EXCEPT ![d] = Raised(c, "timeout")]
    /\ UNCHANGED <<image_load_status, attrs, pc, fail, log, started, serial,
                   vtysh, frame, reboots, node>>

\* The initial command sent whether the initial prompt came or not.
setup_shell_initial_command_unwaited(d) ==
    /\ conn[d].step = "initial"
    /\ LET c == conn[d]
       IN \/ conn' = [conn EXCEPT ![d] = [c EXCEPT
                 !.step = "prompt", !.seen = Seen(c, "initial"),
                 !.sent = Sent(c, "initial_command")]]
          \/ conn' = [conn EXCEPT ![d] = [c EXCEPT
                 !.step = "prompt", !.seen = Seen(c, "timeout"),
                 !.sent = Sent(c, "initial_command")]]
    /\ UNCHANGED <<image_load_status, attrs, pc, fail, log, started, serial,
                   vtysh, frame, reboots, node>>

\* shell.py:97-101: wait for the initial prompt, send the initial command.
setup_shell_initial_command(d) ==
    /\ conn[d].step = "initial"
    /\ LET c == conn[d]
       IN \/ conn' = [conn EXCEPT ![d] = [c EXCEPT
                 !.step = "prompt", !.seen = Seen(c, "initial"),
                 !.sent = Sent(c, "initial_command")]]
          \/ conn' = [conn EXCEPT ![d] = Raised(c, "timeout")]
    /\ UNCHANGED <<image_load_status, attrs, pc, fail, log, started, serial,
                   vtysh, frame, reboots, node>>

\* PExpectShell.connect, after _setup_shell returned: the wait for the
\* shell's prompt that ends connect().
connect_wait_prompt(d) ==
    /\ conn[d].step = "prompt"
    /\ LET c == conn[d]
       IN \/ conn' = [conn EXCEPT ![d] = [c EXCEPT
                 !.step = "ok", !.seen = Seen(c, "prompt")]]
          \/ conn' = [conn EXCEPT ![d] = Raised(c, "timeout")]
    /\ UNCHANGED <<image_load_status, attrs, pc, fail, log, started, serial,
                   vtysh, frame, reboots, node>>

Handshake(d) ==
    \/ pre_setup_shell(d)
    \/ setup_shell_user(d)
    \/ setup_shell_password(d)
    \/ setup_shell_initial_command(d)
    \/ connect_wait_prompt(d)

(***************************************************************************)
(* The device: OpenswitchNode.__init__ and _burn_image.                    *)
(***************************************************************************)

IPs == {"10.0.0.1", "10.0.0.2"}

\* The values bootloader_bootup_timeout takes: absent ('0') or configured.
BootloaderTimeouts == {0, 600}

\* The response timeout of a shell that was given none (openswitch.py:254).
DefaultTimeout == 30

\* openswitch.py:237: the wait for the rescue console.
RescueTimeout == 180

\* openswitch.py:315: the attempts of _create_startup_config.
CreateAttempts == 15

\* Bounds of the model: timeouts of the download wait, length of the output
\* the channel holds at a timeout.
MaxTimeouts == 3

MaxMsgLen == 2

Chars == {"CR", "a", "b"}

Messages == UNION {[1..n -> Chars] : n \in 0..MaxMsgLen}

\* message.rfind('\r'), 1-based: the last carriage return, 0 when none.
RFindCR(msg) ==
    LET at == {i \in 1..Len(msg) : msg[i] = "CR"}
    IN IF at = {} THEN 0 ELSE CHOOSE i \in at : \A j \in at : j <= i

\* openswitch.py:264: message[message.rfind('\r') + 1 :]
TrailingFragment(msg) == SubSeq(msg, RFindCR(msg) + 1, Len(msg))

Op(stage, shell, cmd, res) ==
    [stage |-> stage, shell |-> shell, cmd |-> cmd, res |-> res]

NoFail == [stage |-> 0, reason |-> "none"]

NoSerial == [alive |-> FALSE, prompt |-> "none", timeout |-> DefaultTimeout]

NoVtysh == [alive |-> FALSE, prompt |-> "vtysh"]

NoFrame == [temp |-> 0, out |-> <<>>, prev_out |-> <<>>, timeouts |-> 0,
            seconds |-> 0, closed |-> FALSE, eofs |-> 0]

\* A statement that completed: the operation is recorded, the call goes on.
Done(d, op, next) ==
    /\ log' = [log EXCEPT ![d] = Append(@, op)]
    /\ pc' = [pc EXCEPT ![d] = next]
    /\ fail' = fail

\* A statement that raised: the exception leaves _burn_image and __init__.
Raise(d, op, stage, reason) ==
    /\ log' = [log EXCEPT ![d] = Append(@, op)]
    /\ pc' = [pc EXCEPT ![d] = "failed"]
    /\ fail' = [fail EXCEPT ![d] = [stage |-> stage, reason |-> reason]]

\* The shell's connect() is entered: the handshake runs next.
Connect(d, shell, user, password, initial_command) ==
    conn' = [conn EXCEPT ![d] =
        LET c == [NoConn EXCEPT !.shell = shell, !.user = user,
                                !.password = password,
                                !.initial_command = initial_command]
        IN [c EXCEPT !.step = FirstStep(c)]]

Returned(d) == conn[d].step \in {"ok", "fail"}

\* The order in which the topology's nodes are constructed.
Order == <<"sw1", "sw2">>

\* openswitch.py:92-112: the shells of a switch, in the order of self._shells.
OpenswitchShells == <<"vtysh", "bash", "vsctl">>

\* host.py:65-74: the shell of a host.
HostShells == <<"bash">>

\* An SshMixin nobody asked for a command.
NoSsh == [step |-> "none", user |-> "none", hostname |-> "none",
          port |-> "none", options |-> <<>>, identity_file |-> "none",
          command |-> <<>>]

\* No node was constructed, no SSH shell made.
NoNode ==
    /\ shells = [d \in Nodes |-> <<>>]
    /\ bash = [d \in Nodes |-> <<>>]
    /\ ports = [d \in Nodes |-> {}]
    /\ ssh = NoSsh

\* The program runs one constructor at a time, in the topology's order.
Sequential(d) ==
    /\ Len(started) < Len(Order)
    /\ d = Order[Len(started) + 1]
    /\ \A e \in Nodes \ {d} : pc[e] \in {"idle", "done", "failed"}

\* Every node taken to declare an image block.
HasImage_always(d) == TRUE

\* openswitch.py:113, 192: self._image_attrs is not None.
HasImage(d) == attrs[d].image

\* OpenswitchNode.__init__, openswitch.py:71-115.
Construct(d) ==
    /\ pc[d] = "idle"
    /\ Sequential(d)
    /\ started' = Append(started, d)
    /\ vtysh' = [vtysh EXCEPT ![d] = NoVtysh]
    /\ shells' = [shells EXCEPT ![d] = OpenswitchShells]
    /\ bash' = [bash EXCEPT ![d] = [n \in {"bash", "vsctl"} |-> FALSE]]
    /\ pc' = [pc EXCEPT ![d] = IF HasImage(d) THEN "burn" ELSE "done"]
    /\ UNCHANGED <<image_load_status, attrs, fail, log, conn, serial, frame,
                   reboots, ports, ssh>>

InStatus(ip) == \E i \in 1..Len(image_load_status) : image_load_status[i] = ip


\* The early returns without the lookup in image_load_status.
burn_image_check_no_lookup(d) ==
    /\ pc[d] = "burn"
    /\ pc' = [pc EXCEPT ![d] = IF ~HasImage(d) THEN "done" ELSE "mark"]
    /\ UNCHANGED <<image_load_status, attrs, fail, log, started, conn, serial,
                   vtysh, frame, reboots, node>>

\* openswitch.py:192-195: the two early returns of _burn_image.
burn_image_check(d) ==
    /\ pc[d] = "burn"
    /\ pc' = [pc EXCEPT ![d] =
                IF ~HasImage(d) \/ InStatus(attrs[d].IP)
                THEN "done" ELSE "mark"]
    /\ UNCHANGED <<image_load_status, attrs, fail, log, started, conn, serial,
                   vtysh, frame, reboots, node>>


\* Stage 1 entered with the append left for the end of the workflow.
burn_image_mark_late(d) ==
    /\ pc[d] = "mark"
    /\ pc' = [pc EXCEPT ![d] = "s1"]
    /\ UNCHANGED <<image_load_status, attrs, fail, log, started, conn, serial,
                   vtysh, frame, reboots, node>>

\* openswitch.py:196: image_load_status.append(self._IP)
burn_image_mark(d) ==
    /\ pc[d] = "mark"
    /\ image_load_status' = Append(image_load_status, attrs[d].IP)
    /\ pc' = [pc EXCEPT ![d] = "s1"]
    /\ UNCHANGED <<attrs, fail, log, started, conn, serial, vtysh, frame,
                   reboots, node>>

\* openswitch.py:198-205: the serial shell is made and connect() entered.
serial_connect(d) ==
    /\ pc[d] \in {"s1", "s1_retry"}
    /\ conn[d].step = "idle"
    /\ serial' = [serial EXCEPT ![d] = [NoSerial EXCEPT !.prompt = "serial"]]
    /\ Connect(d, "serial", attrs[d].serial_user, attrs[d].serial_password,
               FALSE)
    /\ UNCHANGED <<image_load_status, attrs, pc, fail, log, started, vtysh,
                   frame, reboots, node>>

\* openswitch.py:204-206: the first connect() returned or raised.
serial_connected(d) ==
    /\ pc[d] = "s1"
    /\ Returned(d)
    /\ conn' = [conn EXCEPT ![d] = NoConn]
    /\ \/ /\ conn[d].step = "ok"
          /\ serial' = [serial EXCEPT ![d].alive = TRUE]
          /\ Done(d, Op(1, "serial", "connect", "ok"), "s2")
       \/ /\ conn[d].step = "fail"
          /\ serial' = serial
          /\ Done(d, Op(1, "serial", "connect", "raised"), "s1_reboot")
    /\ UNCHANGED <<image_load_status, attrs, started, vtysh, frame, reboots, node>>

\* OpenswitchNode._reboot_switch, openswitch.py:325-330, as called from the
\* except clause at 207.  printf is no name of the module or of the
\* builtins: the call raises NameError before call() runs.
reboot_switch(d) ==
    /\ pc[d] = "s1_reboot"
    /\ \/ /\ ~attrs[d].reboot_command
          /\ pc' = [pc EXCEPT ![d] = "s1_retry"]
          /\ UNCHANGED <<fail, log>>
       \/ /\ attrs[d].reboot_command
          /\ Raise(d, Op(1, "none", "printf", "raised"), 1, "NameError")
    /\ UNCHANGED <<image_load_status, attrs, started, conn, serial, vtysh,
                   frame, reboots, node>>


\* A second except clause around the second connect(): reboot and try again.
serial_reconnected_again(d) ==
    /\ pc[d] = "s1_retry"
    /\ Returned(d)
    /\ conn' = [conn EXCEPT ![d] = NoConn]
    /\ \/ /\ conn[d].step = "ok"
          /\ serial' = [serial EXCEPT ![d].alive = TRUE]
          /\ Done(d, Op(1, "serial", "connect", "ok"), "s2")
       \/ /\ conn[d].step = "fail"
          /\ serial' = serial
          /\ Done(d, Op(1, "serial", "connect", "raised"), "s1_retry")
    /\ UNCHANGED <<image_load_status, attrs, started, vtysh, frame, reboots, node>>

\* openswitch.py:208: the second connect() returned or raised.
serial_reconnected(d) ==
    /\ pc[d] = "s1_retry"
    /\ Returned(d)
    /\ conn' = [conn EXCEPT ![d] = NoConn]
    /\ \/ /\ conn[d].step = "ok"
          /\ serial' = [serial EXCEPT ![d].alive = TRUE]
          /\ Done(d, Op(1, "serial", "connect", "ok"), "s2")
       \/ /\ conn[d].step = "fail"
          /\ serial' = serial
          /\ Raise(d, Op(1, "serial", "connect", "raised"), 1,
                   "HandshakeFailed")
    /\ UNCHANGED <<image_load_status, attrs, started, vtysh, frame, reboots, node>>

\* _erase_startup_config, openswitch.py:301-302: vtysh.connect() is entered.
erase_connect(d) ==
    /\ pc[d] = "s2"
    /\ conn[d].step = "idle"
    /\ Connect(d, "vtysh", TRUE, attrs[d].password, TRUE)
    /\ pc' = [pc EXCEPT ![d] = "s2_connect"]
    /\ UNCHANGED <<image_load_status, attrs, fail, log, started, serial,
                   vtysh, frame, reboots, node>>

\* openswitch.py:302: vtysh.connect() returned or raised.
erase_connected(d) ==
    /\ pc[d] = "s2_connect"
    /\ Returned(d)
    /\ conn' = [conn EXCEPT ![d] = NoConn]
    /\ \/ /\ conn[d].step = "ok"
          /\ vtysh' = [vtysh EXCEPT ![d].alive = TRUE]
          /\ Done(d, Op(2, "vtysh", "connect", "ok"), "s2_erase")
       \/ /\ conn[d].step = "fail"
          /\ vtysh' = vtysh
          /\ Raise(d, Op(2, "vtysh", "connect", "raised"), 2,
                   "HandshakeFailed")
    /\ UNCHANGED <<image_load_status, attrs, started, serial, frame, reboots, node>>

\* The erase command with the confirmation prompt left in place.
erase_startup_config_prompt_kept(d) ==
    /\ pc[d] = "s2_erase"
    /\ \/ /\ vtysh' = [vtysh EXCEPT ![d].prompt = "confirm"]
          /\ Done(d, Op(2, "vtysh", "erase startup-config", "ok"),
                  "s2_confirm")
       \/ /\ vtysh' = [vtysh EXCEPT ![d].prompt = "confirm"]
          /\ Raise(d, Op(2, "vtysh", "erase startup-config", "timeout"), 2,
                   "Timeout")
    /\ UNCHANGED <<image_load_status, attrs, started, conn, serial, frame,
                   reboots, node>>

\* openswitch.py:303-306: the erase command under the confirmation prompt.
erase_startup_config(d) ==
    /\ pc[d] = "s2_erase"
    /\ \/ /\ vtysh' = [vtysh EXCEPT ![d].prompt = vtysh[d].prompt]
          /\ Done(d, Op(2, "vtysh", "erase startup-config", "ok"),
                  "s2_confirm")
       \/ /\ vtysh' = [vtysh EXCEPT ![d].prompt = "confirm"]
          /\ Raise(d, Op(2, "vtysh", "erase startup-config", "timeout"), 2,
                   "Timeout")
    /\ UNCHANGED <<image_load_status, attrs, started, conn, serial, frame,
                   reboots, node>>

\* openswitch.py:307: the confirmation answer.
erase_confirm(d) ==
    /\ pc[d] = "s2_confirm"
    /\ \/ Done(d, Op(2, "vtysh", "y", "ok"), "s2_disconnect")
       \/ Raise(d, Op(2, "vtysh", "y", "timeout"), 2, "Timeout")
    /\ UNCHANGED <<image_load_status, attrs, started, conn, serial, vtysh,
                   frame, reboots, node>>

\* openswitch.py:308: vtysh.disconnect()
erase_disconnect(d) ==
    /\ pc[d] = "s2_disconnect"
    /\ vtysh' = [vtysh EXCEPT ![d].alive = FALSE]
    /\ Done(d, Op(2, "vtysh", "disconnect", "ok"), "s3")
    /\ UNCHANGED <<image_load_status, attrs, started, conn, serial, frame,
                   reboots, node>>

\* openswitch.py:215-216, 286-287: the bootloader override of the timeout.
BootloaderOverride(d, timeout) ==
    IF attrs[d].bootloader_bootup_timeout # 0
    THEN attrs[d].bootloader_bootup_timeout ELSE timeout

\* openswitch.py:212-220: reboot and wait for the bootloader menu.
reboot_to_bootloader(d) ==
    /\ pc[d] = "s3"
    /\ frame' = [frame EXCEPT ![d].temp = serial[d].timeout]
    /\ \/ /\ serial' = [serial EXCEPT ![d].prompt = "boot",
                                      ![d].timeout = serial[d].timeout]
          /\ Done(d, Op(3, "serial", "reboot", "ok"), "s4_1")
       \/ /\ serial' = [serial EXCEPT ![d].prompt = "grub",
                 ![d].timeout = BootloaderOverride(d, serial[d].timeout)]
          /\ Raise(d, Op(3, "serial", "reboot", "timeout"), 3, "Timeout")
    /\ UNCHANGED <<image_load_status, attrs, started, conn, vtysh, reboots, node>>

\* openswitch.py:223-225: three times arrow down in the bootloader menu.
select_rescue_arrow(d) ==
    /\ \E i \in 1..3 :
        /\ pc[d] = <<"s4_1", "s4_2", "s4_3">>[i]
        /\ \/ Done(d, Op(4, "serial", "arrow-down", "ok"),
                   <<"s4_2", "s4_3", "s4_enter">>[i])
           \/ Raise(d, Op(4, "serial", "arrow-down", "timeout"), 4,
                    "Timeout")
    /\ UNCHANGED <<image_load_status, attrs, started, conn, serial, vtysh,
                   frame, reboots, node>>

\* openswitch.py:227-228: Enter, wait for the ONIE menu.
select_rescue_enter(d) ==
    /\ pc[d] = "s4_enter"
    /\ serial' = [serial EXCEPT ![d].prompt = "onie_boot"]
    /\ \/ Done(d, Op(4, "serial", "enter", "ok"), "s5_arrow")
       \/ Raise(d, Op(4, "serial", "enter", "timeout"), 4, "Timeout")
    /\ UNCHANGED <<image_load_status, attrs, started, conn, vtysh, frame,
                   reboots, node>>

\* openswitch.py:231: arrow down in the ONIE menu.
select_installer_arrow(d) ==
    /\ pc[d] = "s5_arrow"
    /\ \/ Done(d, Op(5, "serial", "arrow-down", "ok"), "s5_activate")
       \/ Raise(d, Op(5, "serial", "arrow-down", "timeout"), 5, "Timeout")
    /\ UNCHANGED <<image_load_status, attrs, started, conn, serial, vtysh,
                   frame, reboots, node>>

\* openswitch.py:234-240: Enter under the extended timeout, wait for the
\* console to ask for activation.
select_installer_activate(d) ==
    /\ pc[d] = "s5_activate"
    /\ \/ /\ serial' = [serial EXCEPT ![d].prompt = "onie",
                                      ![d].timeout = frame[d].temp]
          /\ Done(d, Op(5, "serial", "enter", "ok"), "s5_enter")
       \/ /\ serial' = [serial EXCEPT ![d].prompt = "activate",
                                      ![d].timeout = RescueTimeout]
          /\ Raise(d, Op(5, "serial", "enter", "timeout"), 5, "Timeout")
    /\ UNCHANGED <<image_load_status, attrs, started, conn, vtysh, frame,
                   reboots, node>>

\* openswitch.py:241: Enter, wait for the rescue prompt.
select_installer_enter(d) ==
    /\ pc[d] = "s5_enter"
    /\ \/ Done(d, Op(5, "serial", "enter", "ok"), "s6_scp")
       \/ Raise(d, Op(5, "serial", "enter", "timeout"), 5, "Timeout")
    /\ UNCHANGED <<image_load_status, attrs, started, conn, serial, vtysh,
                   frame, reboots, node>>

\* openswitch.py:244-246: the download command, wait for the host key
\* question.
download_scp(d) ==
    /\ pc[d] = "s6_scp"
    /\ serial' = [serial EXCEPT ![d].prompt = "continue"]
    /\ \/ Done(d, Op(6, "serial", "scp", "ok"), "s6_yes")
       \/ Raise(d, Op(6, "serial", "scp", "timeout"), 6, "Timeout")
    /\ UNCHANGED <<image_load_status, attrs, started, conn, vtysh, frame,
                   reboots, node>>

\* openswitch.py:247-248: confirm the host key, wait for the password prompt.
download_yes(d) ==
    /\ pc[d] = "s6_yes"
    /\ serial' = [serial EXCEPT ![d].prompt = "password"]
    /\ \/ Done(d, Op(6, "serial", "y", "ok"), "s6_password")
       \/ Raise(d, Op(6, "serial", "y", "timeout"), 6, "Timeout")
    /\ UNCHANGED <<image_load_status, attrs, started, conn, vtysh, frame,
                   reboots, node>>

\* openswitch.py:249-252: the server's password goes to the channel with no
\* wait; sendline(None) raises.
download_password(d) ==
    /\ pc[d] = "s6_password"
    /\ \/ /\ attrs[d].server_password
          /\ Done(d, Op(6, "serial", "server-password", "ok"), "s6_wait")
       \/ /\ ~attrs[d].server_password
          /\ Raise(d, Op(6, "serial", "server-password", "raised"), 6,
                   "TypeError")
    /\ frame' = [frame EXCEPT ![d].out = <<>>, ![d].prev_out = <<>>]
    /\ UNCHANGED <<image_load_status, attrs, started, conn, serial, vtysh,
                   reboots, node>>


\* The loop with a count of its timeouts: the second one gives up.
download_wait_bounded(d) ==
    /\ pc[d] = "s6_wait"
    /\ \/ /\ Done(d, Op(6, "serial", "expect", "ok"), "s7")
          /\ frame' = [frame EXCEPT ![d].out = <<>>, ![d].prev_out = <<>>]
       \/ /\ frame[d].timeouts < MaxTimeouts
          /\ \E message \in Messages :
               LET prev_out == TrailingFragment(message)
               IN \/ /\ prev_out = frame[d].out
                     /\ frame' = [frame EXCEPT ![d].prev_out = prev_out,
                                   ![d].timeouts = @ + 1]
                     /\ Raise(d, Op(6, "serial", "expect", "timeout"), 6,
                              "Stalled")
                  \/ /\ prev_out # frame[d].out
                     /\ frame' = [frame EXCEPT ![d].prev_out = prev_out,
                                   ![d].out = prev_out,
                                   ![d].timeouts = @ + 1]
                     /\ IF frame[d].timeouts >= 1
                        THEN Raise(d, Op(6, "serial", "expect", "timeout"),
                                   6, "Timeout")
                        ELSE Done(d, Op(6, "serial", "expect", "timeout"),
                                  "s6_wait")
    /\ UNCHANGED <<image_load_status, attrs, started, conn, serial, vtysh,
                   reboots, node>>

\* The loop that takes every timeout for a stall.
download_wait_timeout_is_stall(d) ==
    /\ pc[d] = "s6_wait"
    /\ \/ /\ Done(d, Op(6, "serial", "expect", "ok"), "s7")
          /\ frame' = [frame EXCEPT ![d].out = <<>>, ![d].prev_out = <<>>]
       \/ /\ frame[d].timeouts < MaxTimeouts
          /\ \E message \in Messages :
               /\ frame' = [frame EXCEPT
                     ![d].prev_out = TrailingFragment(message),
                     ![d].timeouts = @ + 1]
               /\ Raise(d, Op(6, "serial", "expect", "timeout"), 6, "Stalled")
    /\ UNCHANGED <<image_load_status, attrs, started, conn, serial, vtysh,
                   reboots, node>>

\* The loop without the comparison: every timeout records and waits again.
download_wait_no_compare(d) ==
    /\ pc[d] = "s6_wait"
    /\ \/ /\ Done(d, Op(6, "serial", "expect", "ok"), "s7")
          /\ frame' = [frame EXCEPT ![d].out = <<>>, ![d].prev_out = <<>>]
       \/ /\ frame[d].timeouts < MaxTimeouts
          /\ \E message \in Messages :
               LET prev_out == TrailingFragment(message)
               IN /\ frame' = [frame EXCEPT ![d].prev_out = prev_out,
                                 ![d].out = prev_out, ![d].timeouts = @ + 1]
                  /\ Done(d, Op(6, "serial", "expect", "timeout"), "s6_wait")
    /\ UNCHANGED <<image_load_status, attrs, started, conn, serial, vtysh,
                   reboots, node>>

\* What spawn.before holds when expect raises EOF: the output that was
\* buffered when the channel closed; on a channel found closed already,
\* nothing, or by the version of pexpect what it held the time before.
EofMessages(d) ==
    IF ~frame[d].closed THEN Messages
    ELSE {<<>>} \cup {m \in Messages : TrailingFragment(m) = frame[d].out}

\* The loop with an EOF taken for fresh output: it waits again as often as
\* the model follows.
download_wait_eof_unnoticed(d) ==
    /\ pc[d] = "s6_wait"
    /\ \/ /\ ~frame[d].closed
          /\ Done(d, Op(6, "serial", "expect", "ok"), "s7")
          /\ frame' = [frame EXCEPT ![d].out = <<>>, ![d].prev_out = <<>>]
       \/ /\ ~frame[d].closed
          /\ frame[d].timeouts < MaxTimeouts
          /\ \E message \in Messages :
               LET prev_out == TrailingFragment(message)
               IN \/ /\ prev_out = frame[d].out
                     /\ frame' = [frame EXCEPT ![d].prev_out = prev_out,
                                   ![d].timeouts = @ + 1]
                     /\ Raise(d, Op(6, "serial", "expect", "timeout"), 6,
                              "Stalled")
                  \/ /\ prev_out # frame[d].out
                     /\ frame' = [frame EXCEPT ![d].prev_out = prev_out,
                                   ![d].out = prev_out,
                                   ![d].timeouts = @ + 1]
                     /\ Done(d, Op(6, "serial", "expect", "timeout"),
                             "s6_wait")
       \/ /\ frame' = [frame EXCEPT ![d].closed = TRUE, ![d].eofs = @ + 1]
          /\ IF frame[d].eofs <= MaxTimeouts
             THEN Done(d, Op(6, "serial", "expect", "eof"), "s6_wait")
             ELSE Raise(d, Op(6, "serial", "expect", "eof"), 6, "Stalled")
    /\ UNCHANGED <<image_load_status, attrs, started, conn, serial, vtysh,
                   reboots, node>>

\* openswitch.py:258-272: one wait of the download loop.  At a timeout the
\* channel holds any output; the loop compares its trailing fragment.  The
\* bare except at 261 takes a closed channel (EOF) the same way, and the
\* channel stays closed: every later expect raises EOF at once.  After the
\* break prev_out is not read again and out is assigned before its next
\* read (280): the two leave the state.
download_wait(d) ==
    /\ pc[d] = "s6_wait"
    /\ \/ /\ ~frame[d].closed
          /\ Done(d, Op(6, "serial", "expect", "ok"), "s7")
          /\ frame' = [frame EXCEPT ![d].out = <<>>, ![d].prev_out = <<>>]
       \/ /\ ~frame[d].closed
          /\ frame[d].timeouts < MaxTimeouts
          /\ \E message \in Messages :
               LET prev_out == TrailingFragment(message)
               IN \/ /\ prev_out = frame[d].out
                     /\ frame' = [frame EXCEPT ![d].prev_out = prev_out,
                                   ![d].timeouts = @ + 1]
                     /\ Raise(d, Op(6, "serial", "expect", "timeout"), 6,
                              "Stalled")
                  \/ /\ prev_out # frame[d].out
                     /\ frame' = [frame EXCEPT ![d].prev_out = prev_out,
                                   ![d].out = prev_out,
                                   ![d].timeouts = @ + 1]
                     /\ Done(d, Op(6, "serial", "expect", "timeout"),
                             "s6_wait")
       \/ \E message \in EofMessages(d) :
               LET prev_out == TrailingFragment(message)
               IN \/ /\ prev_out = frame[d].out
                     /\ frame' = [frame EXCEPT ![d].prev_out = prev_out,
                                   ![d].closed = TRUE, ![d].eofs = @ + 1]
                     /\ Raise(d, Op(6, "serial", "expect", "eof"), 6,
                              "Stalled")
                  \/ /\ prev_out # frame[d].out
                     /\ frame' = [frame EXCEPT ![d].prev_out = prev_out,
                                   ![d].out = prev_out,
                                   ![d].closed = TRUE, ![d].eofs = @ + 1]
                     /\ Done(d, Op(6, "serial", "expect", "eof"),
                             "s6_wait")
    /\ UNCHANGED <<image_load_status, attrs, started, conn, serial, vtysh,
                   reboots, node>>


\* The exit status read and not compared.
verify_download_unchecked(d) ==
    /\ pc[d] = "s7"
    /\ serial' = [serial EXCEPT ![d].prompt = "onie"]
    /\ \/ Done(d, Op(7, "serial", "echo $?", "0"), "s8")
       \/ Done(d, Op(7, "serial", "echo $?", "1"), "s8")
       \/ Raise(d, Op(7, "serial", "echo $?", "timeout"), 7, "Timeout")
    /\ UNCHANGED <<image_load_status, attrs, started, conn, vtysh, frame,
                   reboots, node>>

\* openswitch.py:273-276: the exit status of the download.
verify_download(d) ==
    /\ pc[d] = "s7"
    /\ serial' = [serial EXCEPT ![d].prompt = "onie"]
    /\ \/ Done(d, Op(7, "serial", "echo $?", "0"), "s8")
       \/ Raise(d, Op(7, "serial", "echo $?", "1"), 7, "NonZeroExit")
       \/ Raise(d, Op(7, "serial", "echo $?", "timeout"), 7, "Timeout")
    /\ UNCHANGED <<image_load_status, attrs, started, conn, vtysh, frame,
                   reboots, node>>


\* The installer's output not searched for the marker.
run_installer_unchecked(d) ==
    /\ pc[d] = "s8"
    /\ serial' = [serial EXCEPT ![d].prompt = "restart"]
    /\ \/ Done(d, Op(8, "serial", "sh", "marker"), "s9")
       \/ Done(d, Op(8, "serial", "sh", "no-marker"), "s9")
       \/ Raise(d, Op(8, "serial", "sh", "timeout"), 8, "Timeout")
    /\ UNCHANGED <<image_load_status, attrs, started, conn, vtysh, frame,
                   reboots, node>>

\* openswitch.py:277-283: the installer and its success marker.
run_installer(d) ==
    /\ pc[d] = "s8"
    /\ serial' = [serial EXCEPT ![d].prompt = "restart"]
    /\ \/ Done(d, Op(8, "serial", "sh", "marker"), "s9")
       \/ Raise(d, Op(8, "serial", "sh", "no-marker"), 8,
                "MissingSuccessMarker")
       \/ Raise(d, Op(8, "serial", "sh", "timeout"), 8, "Timeout")
    /\ UNCHANGED <<image_load_status, attrs, started, conn, vtysh, frame,
                   reboots, node>>

\* The wait for the bootloader menu with the override left in place.
reboot_to_production_timeout_kept(d) ==
    /\ pc[d] = "s9"
    /\ frame' = [frame EXCEPT ![d].temp = serial[d].timeout]
    /\ \/ /\ serial' = [serial EXCEPT ![d].prompt = "login",
                 ![d].timeout = BootloaderOverride(d, serial[d].timeout)]
          /\ Done(d, Op(9, "serial", "", "ok"), "s9_enter")
       \/ /\ serial' = [serial EXCEPT ![d].prompt = "grub",
                 ![d].timeout = BootloaderOverride(d, serial[d].timeout)]
          /\ Raise(d, Op(9, "serial", "", "timeout"), 9, "Timeout")
    /\ UNCHANGED <<image_load_status, attrs, started, conn, vtysh, reboots, node>>

\* openswitch.py:285-291: wait for the bootloader menu of the new image.
reboot_to_production(d) ==
    /\ pc[d] = "s9"
    /\ frame' = [frame EXCEPT ![d].temp = serial[d].timeout]
    /\ \/ /\ serial' = [serial EXCEPT ![d].prompt = "login",
                                      ![d].timeout = serial[d].timeout]
          /\ Done(d, Op(9, "serial", "", "ok"), "s9_enter")
       \/ /\ serial' = [serial EXCEPT ![d].prompt = "grub",
                 ![d].timeout = BootloaderOverride(d, serial[d].timeout)]
          /\ Raise(d, Op(9, "serial", "", "timeout"), 9, "Timeout")
    /\ UNCHANGED <<image_load_status, attrs, started, conn, vtysh, reboots, node>>

\* openswitch.py:292: Enter, wait for the login prompt.
reboot_to_production_enter(d) ==
    /\ pc[d] = "s9_enter"
    /\ \/ Done(d, Op(9, "serial", "enter", "ok"), "s10_copy")
       \/ Raise(d, Op(9, "serial", "enter", "timeout"), 9, "Timeout")
    /\ UNCHANGED <<image_load_status, attrs, started, conn, serial, vtysh,
                   frame, reboots, node>>

\* _create_startup_config, openswitch.py:313-316: the promote command.  The
\* vtysh shell was disconnected at 308, so the first command finds no live
\* connection and the shell connects again before it sends.
create_startup_config_copy(d) ==
    /\ pc[d] = "s10_copy"
    /\ \/ /\ ~vtysh[d].alive
          /\ conn[d].step = "idle"
          /\ Connect(d, "vtysh", TRUE, attrs[d].password, TRUE)
          /\ pc' = [pc EXCEPT ![d] = "s10_connect"]
          /\ UNCHANGED <<fail, log>>
       \/ /\ vtysh[d].alive
          /\ conn' = conn
          /\ \/ Done(d, Op(10, "vtysh", "copy running-config startup-config",
                           "ok"), "s10_show")
             \/ Raise(d, Op(10, "vtysh", "copy running-config startup-config",
                            "timeout"), 10, "Timeout")
    /\ UNCHANGED <<image_load_status, attrs, started, serial, vtysh, frame,
                   reboots, node>>

\* openswitch.py:316: the connect() of the first command returned or raised.
create_connected(d) ==
    /\ pc[d] = "s10_connect"
    /\ Returned(d)
    /\ conn' = [conn EXCEPT ![d] = NoConn]
    /\ \/ /\ conn[d].step = "ok"
          /\ vtysh' = [vtysh EXCEPT ![d].alive = TRUE]
          /\ Done(d, Op(10, "vtysh", "connect", "ok"), "s10_copy")
       \/ /\ conn[d].step = "fail"
          /\ vtysh' = vtysh
          /\ Raise(d, Op(10, "vtysh", "connect", "raised"), 10,
                   "HandshakeFailed")
    /\ UNCHANGED <<image_load_status, attrs, started, serial, frame, reboots, node>>

\* The loop with an assertion after it: no startup configuration is fatal.
create_startup_config_show_fatal(d) ==
    /\ pc[d] = "s10_show"
    /\ \/ /\ Done(d, Op(10, "vtysh", "show startup-config", "saved"),
                  "s10_disconnect")
          /\ frame' = frame
       \/ /\ frame[d].seconds + 1 < CreateAttempts
          /\ Done(d, Op(10, "vtysh", "show startup-config", "none"),
                  "s10_copy")
          /\ frame' = [frame EXCEPT ![d].seconds = @ + 1]
       \/ /\ frame[d].seconds + 1 >= CreateAttempts
          /\ Raise(d, Op(10, "vtysh", "show startup-config", "none"), 10,
                   "NoStartupConfig")
          /\ frame' = [frame EXCEPT ![d].seconds = @ + 1]
       \/ /\ Raise(d, Op(10, "vtysh", "show startup-config", "timeout"), 10,
                   "Timeout")
          /\ frame' = frame
    /\ UNCHANGED <<image_load_status, attrs, started, conn, serial, vtysh,
                   reboots, node>>


\* The loop with one more turn than the bound of the code.
create_startup_config_show_one_more(d) ==
    /\ pc[d] = "s10_show"
    /\ \/ /\ Done(d, Op(10, "vtysh", "show startup-config", "saved"),
                  "s10_disconnect")
          /\ frame' = frame
       \/ /\ Done(d, Op(10, "vtysh", "show startup-config", "none"),
                  IF frame[d].seconds < CreateAttempts
                  THEN "s10_copy" ELSE "s10_disconnect")
          /\ frame' = [frame EXCEPT ![d].seconds = @ + 1]
       \/ /\ Raise(d, Op(10, "vtysh", "show startup-config", "timeout"), 10,
                   "Timeout")
          /\ frame' = frame
    /\ UNCHANGED <<image_load_status, attrs, started, conn, serial, vtysh,
                   reboots, node>>

\* openswitch.py:317-321: is there a startup configuration now?
create_startup_config_show(d) ==
    /\ pc[d] = "s10_show"
    /\ \/ /\ Done(d, Op(10, "vtysh", "show startup-config", "saved"),
                  "s10_disconnect")
          /\ frame' = frame
       \/ /\ Done(d, Op(10, "vtysh", "show startup-config", "none"),
                  IF frame[d].seconds + 1 < CreateAttempts
                  THEN "s10_copy" ELSE "s10_disconnect")
          /\ frame' = [frame EXCEPT ![d].seconds = @ + 1]
       \/ /\ Raise(d, Op(10, "vtysh", "show startup-config", "timeout"), 10,
                   "Timeout")
          /\ frame' = frame
    /\ UNCHANGED <<image_load_status, attrs, started, conn, serial, vtysh,
                   reboots, node>>

\* openswitch.py:322-323 and 296: vtysh.disconnect(), the constructor returns.
create_disconnect(d) ==
    /\ pc[d] = "s10_disconnect"
    /\ vtysh' = [vtysh EXCEPT ![d].alive = FALSE]
    /\ Done(d, Op(10, "vtysh", "disconnect", "ok"), "done")
    /\ UNCHANGED <<image_load_status, attrs, started, conn, serial, frame,
                   reboots, node>>

(***************************************************************************)
(* The specifications.                                                     *)
(***************************************************************************)

\* The attributes _validate_attributes lets through, as far as _burn_image
\* and the shells read them.
Options ==
    [reboot_command : BOOLEAN, bootloader_bootup_timeout : BootloaderTimeouts,
     password : BOOLEAN, serial_user : BOOLEAN, serial_password : BOOLEAN,
     server_password : BOOLEAN]

Device(ip, image, o) ==
    [IP |-> ip, image |-> image, reboot_command |-> o.reboot_command,
     bootloader_bootup_timeout |-> o.bootloader_bootup_timeout,
     password |-> o.password, serial_user |-> o.serial_user,
     serial_password |-> o.serial_password,
     server_password |-> o.server_password]

\* The topologies: a switch to burn and a second node that declares the
\* same unit, with or without an image block, or another unit without one.
SecondNodes ==
    {<<"10.0.0.1", TRUE>>, <<"10.0.0.1", FALSE>>, <<"10.0.0.2", FALSE>>}

Topologies ==
    {[d \in Nodes |-> IF d = "sw1" THEN Device("10.0.0.1", TRUE, o)
                      ELSE Device(k[1], k[2], o)] :
        o \in Options, k \in SecondNodes}

Init ==
    /\ image_load_status = <<>>
    /\ attrs \in Topologies
    /\ pc = [d \in Nodes |-> "idle"]
    /\ fail = [d \in Nodes |-> NoFail]
    /\ log = [d \in Nodes |-> <<>>]
    /\ started = <<>>
    /\ conn = [d \in Nodes |-> NoConn]
    /\ serial = [d \in Nodes |-> NoSerial]
    /\ vtysh = [d \in Nodes |-> NoVtysh]
    /\ frame = [d \in Nodes |-> NoFrame]
    /\ reboots = [d \in Nodes |-> 0]
    /\ NoNode

Next ==
    \E d \in Nodes :
        \/ Construct(d)
        \/ burn_image_check(d)
        \/ burn_image_mark(d)
        \/ serial_connect(d)
        \/ serial_connected(d)
        \/ reboot_switch(d)
        \/ serial_reconnected(d)
        \/ erase_connect(d)
        \/ erase_connected(d)
        \/ erase_startup_config(d)
        \/ erase_confirm(d)
        \/ erase_disconnect(d)
        \/ reboot_to_bootloader(d)
        \/ select_rescue_arrow(d)
        \/ select_rescue_enter(d)
        \/ select_installer_arrow(d)
        \/ select_installer_activate(d)
        \/ select_installer_enter(d)
        \/ download_scp(d)
        \/ download_yes(d)
        \/ download_password(d)
        \/ download_wait(d)
        \/ verify_download(d)
        \/ run_installer(d)
        \/ reboot_to_production(d)
        \/ reboot_to_production_enter(d)
        \/ create_startup_config_copy(d)
        \/ create_connected(d)
        \/ create_startup_config_show(d)
        \/ create_disconnect(d)
        \/ Handshake(d)

Spec == Init /\ [][Next]_vars

\* The interpreter keeps running the constructor: a step that can be taken
\* is taken.
SpecFair == Spec /\ WF_vars(Next)

\* A single connect() of a shell on its own: every declaration of user,
\* password and initial command, with and without the serial console's
\* _pre_setup_shell.
InitHandshake ==
    /\ image_load_status = <<>>
    /\ attrs = CHOOSE t \in Topologies : TRUE
    /\ pc = [d \in Nodes |-> "idle"]
    /\ fail = [d \in Nodes |-> NoFail]
    /\ log = [d \in Nodes |-> <<>>]
    /\ started = <<>>
    /\ \E shell \in {"serial", "ssh"}, user \in BOOLEAN, password \in BOOLEAN,
          initial_command \in BOOLEAN :
          conn = [d \in Nodes |->
                    IF d = "sw1"
                    THEN LET c == [NoConn EXCEPT !.shell = shell,
                                     !.user = user, !.password = password,
                                     !.initial_command = initial_command]
                         IN [c EXCEPT !.step = FirstStep(c)]
                    ELSE NoConn]
    /\ serial = [d \in Nodes |-> NoSerial]
    /\ vtysh = [d \in Nodes |-> NoVtysh]
    /\ frame = [d \in Nodes |-> NoFrame]
    /\ reboots = [d \in Nodes |-> 0]
    /\ NoNode

NextHandshake == \E d \in Nodes : Handshake(d)

SpecHandshake == InitHandshake /\ [][NextHandshake]_vars

(***************************************************************************)
(* The SSH connect command: SshMixin.__init__ and _get_connect_command.    *)
(* A command line is the sequence of its words; "none" is None.            *)
(***************************************************************************)

\* The longest tuple of options the model passes.
MaxOptions == 2

SshOptions == {"BatchMode=no", "StrictHostKeyChecking=no"}

OptionTuples == UNION {[1..n -> SshOptions] : n \in 0..MaxOptions}

\* shell.py:200-208: the user that runs the process.
get_username == "runner"

\* os.path.isabs on the identity files of the model.
isabs(path) == path \in {"/keys/id_rsa"}

\* shell.py:194-196: join(expanduser('~/.ssh/'), identity_file)
JoinSshDir(path) == IF path = "id_rsa" THEN "/home/runner/.ssh/id_rsa" ELSE path

\* shell.py:221: ' -o {}'.format(' -o '.join(self._options))
OptionFlags(options) ==
    [i \in 1..(2 * Len(options)) |->
        IF i % 2 = 1 THEN "-o" ELSE options[i \div 2]]

\* Interactive mode carries no flags at all.
get_connect_command_interactive(s) ==
    <<"ssh", s.user, "@", s.hostname, "-p", s.port>>
    \o (IF s.identity_file # "none"
        THEN <<"-i", s.identity_file>> \o OptionFlags(s.options)
        ELSE <<>>)

\* shell.py:210-232: SshMixin._get_connect_command
get_connect_command(s) ==
    LET options == IF s.options # <<>> THEN OptionFlags(s.options) ELSE <<>>
        flags == IF s.identity_file # "none"
                 THEN <<"-i", s.identity_file>> \o options
                 ELSE options
    IN <<"ssh", s.user, "@", s.hostname, "-p", s.port>> \o flags

\* shell.py:181-198: SshMixin.__init__
SshMixin_init ==
    /\ ssh.step = "kwargs"
    /\ ssh' = [ssh EXCEPT
          !.step = "made",
          !.user = IF @ = "none" THEN get_username ELSE @,
          !.identity_file = IF @ # "none" /\ ~isabs(@)
                            THEN JoinSshDir(@) ELSE @]
    /\ UNCHANGED <<image_load_status, attrs, pc, fail, log, started, conn,
                   serial, vtysh, frame, reboots, shells, bash, ports>>

\* connect() asks the shell for its command.
connect_command ==
    /\ ssh.step = "made"
    /\ ssh' = [ssh EXCEPT !.step = "command",
                          !.command = get_connect_command(ssh)]
    /\ UNCHANGED <<image_load_status, attrs, pc, fail, log, started, conn,
                   serial, vtysh, frame, reboots, shells, bash, ports>>

\* The keyword arguments an SSH shell is made with.
SshKwargs ==
    [step : {"kwargs"}, user : {"none", "admin"},
     hostname : {"10.0.0.1", "switch1"}, port : {"22", "2222"},
     options : OptionTuples, identity_file : {"none", "id_rsa", "/keys/id_rsa"},
     command : {<<>>}]

InitCommand ==
    /\ image_load_status = <<>>
    /\ attrs = CHOOSE t \in Topologies : TRUE
    /\ pc = [d \in Nodes |-> "idle"]
    /\ fail = [d \in Nodes |-> NoFail]
    /\ log = [d \in Nodes |-> <<>>]
    /\ started = <<>>
    /\ conn = [d \in Nodes |-> NoConn]
    /\ serial = [d \in Nodes |-> NoSerial]
    /\ vtysh = [d \in Nodes |-> NoVtysh]
    /\ frame = [d \in Nodes |-> NoFrame]
    /\ reboots = [d \in Nodes |-> 0]
    /\ shells = [d \in Nodes |-> <<>>]
    /\ bash = [d \in Nodes |-> <<>>]
    /\ ports = [d \in Nodes |-> {}]
    /\ ssh \in SshKwargs

NextCommand == SshMixin_init \/ connect_command

SpecCommand == InitCommand /\ [][NextCommand]_vars

(***************************************************************************)
(* The validation of the declared attributes: ConnectNode.__init__ and     *)
(* _validate_attributes.  A dictionary is the sequence of its items in     *)
(* their order; a value is a string that matches its pattern or does not,  *)
(* None, or a dictionary.                                                  *)
(***************************************************************************)

Str(ok) == [kind |-> "str", ok |-> ok, items |-> <<>>]

None == [kind |-> "none", ok |-> TRUE, items |-> <<>>]

Dict(items) == [kind |-> "dict", ok |-> TRUE, items |-> items]

Pair(key, val) == [key |-> key, val |-> val]

\* An entry of a dictionary of supported attributes: '+' is mandatory; the
\* value is a pattern ("re"), None ("any") or a dictionary ("dict", sub).
Attr(key, mandatory, pattern, sub) ==
    [key |-> key, mandatory |-> mandatory, pattern |-> pattern, sub |-> sub]

\* openswitch.py:35-69: OpenswitchNode._valid_attrs and the dictionaries in
\* it.  "each" is the key None: every item is checked against "sub".
SuppAttrs(name) ==
    CASE name = "openswitch" ->
           [each |-> FALSE, sub |-> "none", keys |-> <<
              Attr("type", TRUE, "re", "none"),
              Attr("user", TRUE, "re", "none"),
              Attr("IP", TRUE, "re", "none"),
              Attr("password", FALSE, "re", "none"),
              Attr("clear_config", FALSE, "re", "none"),
              Attr("reboot_command", FALSE, "re", "none"),
              Attr("bootup_timeout", FALSE, "re", "none"),
              Attr("sys_init_after_bootup_timeout", FALSE, "re", "none"),
              Attr("bootloader_bootup_timeout", FALSE, "re", "none"),
              Attr("image", FALSE, "dict", "image"),
              Attr("serial", FALSE, "dict", "serial"),
              Attr("interfaces", FALSE, "dict", "interfaces")>>]
      [] name = "image" ->
           [each |-> FALSE, sub |-> "none", keys |-> <<
              Attr("path", TRUE, "re", "none"),
              Attr("server", TRUE, "dict", "server")>>]
      [] name = "server" ->
           [each |-> FALSE, sub |-> "none", keys |-> <<
              Attr("IP", TRUE, "re", "none"),
              Attr("user", FALSE, "re", "none"),
              Attr("password", FALSE, "re", "none")>>]
      [] name = "serial" ->
           [each |-> FALSE, sub |-> "none", keys |-> <<
              Attr("serial_command", TRUE, "re", "none"),
              Attr("user", FALSE, "re", "none"),
              Attr("password", FALSE, "re", "none"),
              Attr("pre_connect_timeout", FALSE, "re", "none"),
              Attr("closing_commands", FALSE, "any", "none")>>]
      [] name = "interfaces" ->
           [each |-> TRUE, sub |-> "interface", keys |-> <<>>]
      [] name = "interface" ->
           [each |-> FALSE, sub |-> "none", keys |-> <<
              Attr("name", TRUE, "re", "none"),
              Attr("speed", FALSE, "re", "none"),
              Attr("bring_intf_up_timeout", FALSE, "re", "none")>>]

\* The entry of a key in a dictionary of supported attributes, 0 if none.
Supported(supp, key) ==
    IF \E i \in 1..Len(supp.keys) : supp.keys[i].key = key
    THEN CHOOSE i \in 1..Len(supp.keys) : supp.keys[i].key = key
    ELSE 0

Violation(kind, attr) == [kind |-> kind, attr |-> attr]

Valid == Violation("ok", <<>>)

HasKey(given, key) == \E i \in 1..Len(given) : given[i].key = key

\* node.py:150-153: the first mandatory attribute that was not specified.
MissingMandatory(given, supp, parent_attr) ==
    LET missing == {i \in 1..Len(supp.keys) :
                       supp.keys[i].mandatory /\ ~HasKey(given, supp.keys[i].key)}
    IN IF missing = {} THEN Valid
       ELSE LET i == CHOOSE j \in missing : \A k \in missing : j <= k
            IN Violation("missing", Append(parent_attr, supp.keys[i].key))

RECURSIVE CheckItems(_, _, _, _)
RECURSIVE validate_attributes(_, _, _)

\* node.py:116-148: the items from the i-th on, up to the first one that
\* raises.
CheckItems(given, name, parent_attr, i) ==
    IF i > Len(given) THEN Valid
    ELSE LET supp == SuppAttrs(name)
             key == given[i].key
             val == given[i].val
             attr == Append(parent_attr, key)
             k == Supported(supp, key)
             this ==
                IF supp.each
                THEN IF val.kind = "dict"
                     THEN validate_attributes(val.items, supp.sub, attr)
                     ELSE Violation("AttributeError", attr)
                ELSE IF k = 0 THEN Violation("unknown", attr)
                ELSE IF supp.keys[k].pattern = "any" THEN Valid
                ELSE IF val.kind = "dict"
                     THEN IF supp.keys[k].pattern = "dict"
                          THEN validate_attributes(val.items,
                                                   supp.keys[k].sub, attr)
                          ELSE Violation("TypeError", attr)
                ELSE IF val.kind = "none" THEN Valid
                ELSE IF supp.keys[k].pattern = "dict"
                     THEN Violation("TypeError", attr)
                ELSE IF val.ok THEN Valid
                ELSE Violation("incorrect", attr)
         IN IF this # Valid THEN this
            ELSE CheckItems(given, name, parent_attr, i + 1)

\* The mandatory attributes are not asked for.
validate_attributes_no_mandatory(given, name, parent_attr) ==
    CheckItems(given, name, parent_attr, 1)

\* node.py:79-153: ConnectNode._validate_attributes, the first assertion
\* that fails.
validate_attributes(given, name, parent_attr) ==
    LET r == CheckItems(given, name, parent_attr, 1)
    IN IF r # Valid THEN r
       ELSE MissingMandatory(given, SuppAttrs(name), parent_attr)

\* node.py:48-50: ConnectNode.__init__ validates what was declared.  The
\* loop at node.py:109-113 moves the '+' keys of the dictionary it iterates
\* over; an interpreter that sees the keys change during the iteration
\* raises RuntimeError there, another one goes on to the items.
ConnectNode_init(d) ==
    /\ pc[d] = "idle"
    /\ \/ /\ pc' = [pc EXCEPT ![d] = "failed"]
          /\ fail' = [fail EXCEPT ![d] =
                [stage |-> 0, reason |-> "RuntimeError", attr |-> <<>>]]
       \/ LET r == validate_attributes(attrs[d], "openswitch", <<>>)
          IN IF r = Valid
             THEN /\ pc' = [pc EXCEPT ![d] = "shells"]
                  /\ fail' = fail
             ELSE /\ pc' = [pc EXCEPT ![d] = "failed"]
                  /\ fail' = [fail EXCEPT ![d] =
                        [stage |-> 0, reason |-> r.kind, attr |-> r.attr]]
    /\ UNCHANGED <<image_load_status, attrs, log, started, conn, serial,
                   vtysh, frame, reboots, node>>

\* openswitch.py:75-112: the attributes are read and the shells are made;
\* _burn_image follows at 113-115.
OpenswitchNode_shells(d) ==
    /\ pc[d] = "shells"
    /\ shells' = [shells EXCEPT ![d] = OpenswitchShells]
    /\ bash' = [bash EXCEPT ![d] = [n \in {"bash", "vsctl"} |-> FALSE]]
    /\ vtysh' = [vtysh EXCEPT ![d] = NoVtysh]
    /\ pc' = [pc EXCEPT ![d] = "constructed"]
    /\ UNCHANGED <<image_load_status, attrs, fail, log, started, conn, serial,
                   frame, reboots, ports, ssh>>

\* What a topology may declare for a switch: every attribute left out,
\* given with a good value or given with a bad one.
TypeDecl == {<<>>, <<Pair("type", Str(TRUE))>>, <<Pair("type", Str(FALSE))>>}

UserDecl == {<<>>, <<Pair("user", Str(TRUE))>>}

IPDecl == {<<Pair("IP", Str(TRUE))>>, <<Pair("IP", Str(FALSE))>>}

PasswordDecl == {<<>>, <<Pair("password", None)>>}

UnknownDecl == {<<>>, <<Pair("vendor", Str(TRUE))>>}

ServerDecls ==
    {Dict(<<Pair("IP", Str(TRUE)), Pair("password", Str(TRUE))>>),
     Dict(<<Pair("IP", Str(FALSE))>>),
     Dict(<<Pair("user", Str(TRUE))>>)}

ImageDecl ==
    {<<>>, <<Pair("image", Str(TRUE))>>,
     <<Pair("image", Dict(<<Pair("path", Str(TRUE))>>))>>}
    \cup {<<Pair("image", Dict(<<Pair("path", Str(TRUE)),
                                 Pair("server", server)>>))>> :
             server \in ServerDecls}

InterfacesDecl ==
    {<<>>,
     <<Pair("interfaces", Dict(<<
          Pair("1", Dict(<<Pair("name", Str(TRUE))>>))>>))>>,
     <<Pair("interfaces", Dict(<<
          Pair("1", Dict(<<Pair("speed", Str(FALSE))>>))>>))>>}

Reverse(seq) == [i \in 1..Len(seq) |-> seq[Len(seq) + 1 - i]]

Declarations ==
    LET inOrder == {t \o u \o ip \o pw \o un \o im \o intf :
                       t \in TypeDecl, u \in UserDecl, ip \in IPDecl,
                       pw \in PasswordDecl, un \in UnknownDecl,
                       im \in ImageDecl, intf \in InterfacesDecl}
    IN inOrder \cup {Reverse(given) : given \in inOrder}

InitValidate ==
    /\ image_load_status = <<>>
    /\ \E given \in Declarations :
          attrs = [d \in Nodes |-> IF d = "sw1" THEN given ELSE <<>>]
    /\ pc = [d \in Nodes |-> "idle"]
    /\ fail = [d \in Nodes |-> NoFail]
    /\ log = [d \in Nodes |-> <<>>]
    /\ started = <<>>
    /\ conn = [d \in Nodes |-> NoConn]
    /\ serial = [d \in Nodes |-> NoSerial]
    /\ vtysh = [d \in Nodes |-> NoVtysh]
    /\ frame = [d \in Nodes |-> NoFrame]
    /\ reboots = [d \in Nodes |-> 0]
    /\ NoNode

NextValidate ==
    \E d \in Nodes : ConnectNode_init(d) \/ OpenswitchNode_shells(d)

SpecValidate == InitValidate /\ [][NextValidate]_vars

(***************************************************************************)
(* A constructed node without an image block: start(), clear_config(),     *)
(* bring_port_up() and stop(), and the serial shell a test may open.  A    *)
(* command is one step: what is sent and what the channel answers.         *)
(***************************************************************************)

\* The labels a topology may give to the interfaces of a node.
Labels == {"1", "2"}

\* The order of the items of 'interfaces'.
LabelOrder == <<"1", "2">>

\* The calls on the serial shell the model follows.
MaxSerialCalls == 3

\* A command on a shell of a constructed node, outside the burn.
Command(shell, cmd, intf, res) ==
    [stage |-> 0, shell |-> shell, cmd |-> cmd, res |-> res, intf |-> intf]

\* Is the shell of that name connected?
Connected(d, n) ==
    CASE n = "vtysh" -> vtysh[d].alive
      [] n = "serial" -> serial[d].alive
      [] OTHER -> bash[d][n]

AllConnected(d) ==
    \A k \in 1..Len(shells[d]) : Connected(d, shells[d][k])

\* node.py:186-187: shell.connect() of the next shell of self._shells; an
\* exception leaves start().
start_connect(d) ==
    /\ pc[d] = "constructed"
    /\ \E k \in 1..Len(shells[d]) :
          LET n == shells[d][k]
          IN /\ \A j \in 1..(k - 1) : Connected(d, shells[d][j])
             /\ ~Connected(d, n)
             /\ \/ /\ IF n = "vtysh"
                      THEN /\ vtysh' = [vtysh EXCEPT ![d].alive = TRUE]
                           /\ bash' = bash
                      ELSE /\ bash' = [bash EXCEPT ![d][n] = TRUE]
                           /\ vtysh' = vtysh
                   /\ log' = [log EXCEPT ![d] =
                         Append(@, Command(n, "connect", "none", "ok"))]
                   /\ UNCHANGED <<pc, fail>>
                \/ /\ log' = [log EXCEPT ![d] =
                         Append(@, Command(n, "connect", "none", "raised"))]
                   /\ pc' = [pc EXCEPT ![d] = "failed"]
                   /\ fail' = [fail EXCEPT ![d] =
                         [stage |-> 0, reason |-> "HandshakeFailed"]]
                   /\ UNCHANGED <<vtysh, bash>>
    /\ UNCHANGED <<image_load_status, attrs, started, conn, serial, frame,
                   reboots, shells, ports, ssh>>

RECURSIVE HostClearConfig(_, _, _)

\* host.py:129-143: the commands of HostNode.clear_config for the
\* interfaces from the i-th on; subs are the interfaces 'ip link show'
\* lists a sub-interface of.
HostClearConfig(d, subs, i) ==
    IF i > Len(LabelOrder) THEN <<>>
    ELSE LET label == LabelOrder[i]
             declared == label \in DOMAIN attrs[d].interfaces
             this ==
                IF ~declared \/ ~attrs[d].interfaces[label].clear_config
                THEN <<>>
                ELSE <<Command("bash", "ip addr flush dev", label, "ok"),
                       Command("bash", "ip link set dev down", label, "ok"),
                       Command("bash", "ip link show", label, "ok")>>
                     \o (IF label \in subs
                         THEN <<Command("bash", "ip link del", label, "ok")>>
                         ELSE <<>>)
         IN this \o HostClearConfig(d, subs, i + 1)

\* node.py:188: self.clear_config() ends start().  openswitch.py:175-180
\* for a switch, host.py:124-143 for a host.
start_clear_config(d) ==
    /\ pc[d] = "constructed"
    /\ AllConnected(d)
    /\ pc' = [pc EXCEPT ![d] = "started"]
    /\ IF attrs[d].type = "openswitch"
       THEN log' = [log EXCEPT ![d] =
                IF attrs[d].clear_config
                THEN Append(@, Command("vtysh",
                        "copy startup-config running-config", "none", "ok"))
                ELSE @]
       ELSE \E subs \in SUBSET DOMAIN attrs[d].interfaces :
               log' = [log EXCEPT ![d] = @ \o HostClearConfig(d, subs, 1)]
    /\ UNCHANGED <<image_load_status, attrs, fail, started, conn, serial,
                   vtysh, frame, reboots, node>>

\* The interface is configured without a look at its state.
bring_port_up_unconditional(d, label) ==
    /\ pc[d] = "started"
    /\ label \notin ports[d]
    /\ ports' = [ports EXCEPT ![d] = @ \cup {label}]
    /\ IF label \notin DOMAIN attrs[d].interfaces
       THEN log' = [log EXCEPT ![d] =
               Append(@, Command("none", "_get_interface_config", label,
                                 "raised"))]
       ELSE IF attrs[d].type = "host"
       THEN \E res \in {"ok", "timeout"} :
               log' = [log EXCEPT ![d] =
                  Append(@, Command("bash", "ifconfig up", label, res))]
       ELSE \E res \in {"up", "down", "timeout"} :
               log' = [log EXCEPT ![d] =
                  IF res = "timeout"
                  THEN Append(@, Command("vtysh", "show interface", label,
                                         res))
                  ELSE @ \o <<Command("vtysh", "show interface", label, res),
                              Command("vtysh", "config", label, "ok"),
                              Command("vtysh", "interface", label, "ok")>>
                         \o (IF attrs[d].interfaces[label].speed
                             THEN <<Command("vtysh", "speed", label, "ok")>>
                             ELSE <<>>)
                         \o <<Command("vtysh", "no shutdown", label, "ok"),
                              Command("vtysh", "exit", label, "ok"),
                              Command("vtysh", "exit", label, "ok")>>]
    /\ UNCHANGED <<image_load_status, attrs, pc, fail, started, conn, serial,
                   vtysh, frame, reboots, shells, bash, ssh>>

\* openswitch.py:128-148 and host.py:76-86: bring_port_up, called by the
\* platform once for a port.  A label that was not declared fails the
\* assertion of _get_interface_config; a switch asks for the state of the
\* interface and configures it only if it is not reported up; a host sends
\* its one command.
bring_port_up(d, label) ==
    /\ pc[d] = "started"
    /\ label \notin ports[d]
    /\ ports' = [ports EXCEPT ![d] = @ \cup {label}]
    /\ IF label \notin DOMAIN attrs[d].interfaces
       THEN log' = [log EXCEPT ![d] =
               Append(@, Command("none", "_get_interface_config", label,
                                 "raised"))]
       ELSE IF attrs[d].type = "host"
       THEN \E res \in {"ok", "timeout"} :
               log' = [log EXCEPT ![d] =
                  Append(@, Command("bash", "ifconfig up", label, res))]
       ELSE \E res \in {"up", "down", "timeout"} :
               log' = [log EXCEPT ![d] =
                  IF res \in {"up", "timeout"}
                  THEN Append(@, Command("vtysh", "show interface", label,
                                         res))
                  ELSE @ \o <<Command("vtysh", "show interface", label, res),
                              Command("vtysh", "config", label, "ok"),
                              Command("vtysh", "interface", label, "ok")>>
                         \o (IF attrs[d].interfaces[label].speed
                             THEN <<Command("vtysh", "speed", label, "ok")>>
                             ELSE <<>>)
                         \o <<Command("vtysh", "no shutdown", label, "ok"),
                              Command("vtysh", "exit", label, "ok"),
                              Command("vtysh", "exit", label, "ok")>>]
    /\ UNCHANGED <<image_load_status, attrs, pc, fail, started, conn, serial,
                   vtysh, frame, reboots, shells, bash, ssh>>

\* node.py:190-195: stop() disconnects every shell of self._shells.
stop(d) ==
    /\ pc[d] = "started"
    /\ pc' = [pc EXCEPT ![d] = "stopped"]
    /\ vtysh' = [vtysh EXCEPT ![d].alive = FALSE]
    /\ bash' = [bash EXCEPT ![d] = [n \in DOMAIN @ |-> FALSE]]
    /\ log' = [log EXCEPT ![d] = @ \o
          [k \in 1..Len(shells[d]) |->
              Command(shells[d][k], "disconnect", "none", "ok")]]
    /\ UNCHANGED <<image_load_status, attrs, fail, started, conn, serial,
                   frame, reboots, shells, ports, ssh>>

SerialCalls(d) ==
    Cardinality({i \in 1..Len(log[d]) : log[d][i].shell = "serial"})

HasSerialShell(d) ==
    /\ attrs[d].type = "openswitch"
    /\ pc[d] \in {"constructed", "started", "stopped"}
    /\ SerialCalls(d) < MaxSerialCalls

\* connect() of an OpenswitchSerialShell that is not connected.
serial_shell_connect(d) ==
    /\ HasSerialShell(d)
    /\ ~serial[d].alive
    /\ \E res \in {"ok", "raised"} :
          /\ serial' = [serial EXCEPT ![d].alive = (res = "ok")]
          /\ log' = [log EXCEPT ![d] =
                Append(@, Command("serial", "connect", "none", res))]
    /\ UNCHANGED <<image_load_status, attrs, pc, fail, started, conn, vtysh,
                   frame, reboots, node>>

\* shell.py:358-371: OpenswitchSerialShell.disconnect.  The module neither
\* imports AlreadyDisconnectedError nor binds spawn in
\* _close_serial_connection: both names raise NameError when they are
\* reached, the second one before spawn.close().
OpenswitchSerialShell_disconnect(d) ==
    /\ HasSerialShell(d)
    /\ \E i \in 1..Len(log[d]) :
          log[d][i] = Command("serial", "connect", "none", "ok")
    /\ IF ~serial[d].alive \/ attrs[d].closing_commands # <<>>
       THEN /\ serial' = serial
            /\ log' = [log EXCEPT ![d] =
                  Append(@, Command("serial", "disconnect", "none",
                                    "NameError"))]
       ELSE /\ serial' = [serial EXCEPT ![d].alive = FALSE]
            /\ log' = [log EXCEPT ![d] =
                  Append(@, Command("serial", "disconnect", "none", "ok"))]
    /\ UNCHANGED <<image_load_status, attrs, pc, fail, started, conn, vtysh,
                   frame, reboots, node>>

\* The interfaces a node may declare: any of the labels, with a speed or
\* without, to be cleared by a host or not.
InterfaceDecls ==
    UNION {[ls -> [speed : BOOLEAN, clear_config : BOOLEAN]] :
              ls \in SUBSET Labels}

\* The constructed nodes: a switch or a host, no image block.
\* Only a switch reads 'speed', its own clear_config and the closing
\* commands of its serial block; only a host reads the clear_config of an
\* interface.
ConstructedNodes ==
    {n \in [type : {"openswitch", "host"}, interfaces : InterfaceDecls,
            clear_config : BOOLEAN, closing_commands : {<<>>, <<"exit">>}] :
        IF n.type = "host"
        THEN /\ n.clear_config
             /\ n.closing_commands = <<>>
             /\ \A l \in DOMAIN n.interfaces : ~n.interfaces[l].speed
        ELSE \A l \in DOMAIN n.interfaces : n.interfaces[l].clear_config}

InitSession ==
    /\ image_load_status = <<>>
    /\ \E n \in ConstructedNodes :
          /\ attrs = [d \in Nodes |-> n]
          /\ shells = [d \in Nodes |->
                IF d # "sw1" THEN <<>>
                ELSE IF n.type = "host" THEN HostShells ELSE OpenswitchShells]
          /\ bash = [d \in Nodes |->
                IF d # "sw1" THEN <<>>
                ELSE IF n.type = "host" THEN [k \in {"bash"} |-> FALSE]
                ELSE [k \in {"bash", "vsctl"} |-> FALSE]]
    /\ pc = [d \in Nodes |-> IF d = "sw1" THEN "constructed" ELSE "idle"]
    /\ fail = [d \in Nodes |-> NoFail]
    /\ log = [d \in Nodes |-> <<>>]
    /\ started = <<"sw1">>
    /\ conn = [d \in Nodes |-> NoConn]
    /\ serial = [d \in Nodes |-> NoSerial]
    /\ vtysh = [d \in Nodes |-> NoVtysh]
    /\ frame = [d \in Nodes |-> NoFrame]
    /\ reboots = [d \in Nodes |-> 0]
    /\ ports = [d \in Nodes |-> {}]
    /\ ssh = NoSsh

NextSession ==
    \E d \in Nodes :
        \/ start_connect(d)
        \/ start_clear_config(d)
        \/ \E label \in Labels : bring_port_up(d, label)
        \/ stop(d)
        \/ serial_shell_connect(d)
        \/ OpenswitchSerialShell_disconnect(d)

SpecSession == InitSession /\ [][NextSession]_vars

\* Two constructors started on two threads: their steps up to the first
\* channel operation of stage 1, in any interleaving.
ConstructConcurrent(d) ==
    /\ pc[d] = "idle"
    /\ started' = Append(started, d)
    /\ vtysh' = [vtysh EXCEPT ![d] = NoVtysh]
    /\ shells' = [shells EXCEPT ![d] = OpenswitchShells]
    /\ bash' = [bash EXCEPT ![d] = [n \in {"bash", "vsctl"} |-> FALSE]]
    /\ pc' = [pc EXCEPT ![d] = IF HasImage(d) THEN "burn" ELSE "done"]
    /\ UNCHANGED <<image_load_status, attrs, fail, log, conn, serial, frame,
                   reboots, ports, ssh>>

NextConcurrent ==
    \E d \in Nodes :
        \/ ConstructConcurrent(d)
        \/ burn_image_check(d)
        \/ burn_image_mark(d)
        \/ serial_connect(d)

SpecConcurrent == Init /\ [][NextConcurrent]_vars

(***************************************************************************)
(* The claims.                                                             *)
(***************************************************************************)

SameUnit(d, e) ==
    /\ d # e
    /\ attrs[d].IP = attrs[e].IP
    /\ attrs[d].image
    /\ attrs[e].image

\* d was constructed before e.
Before(d, e) ==
    \E i, j \in 1..Len(started) : i < j /\ started[i] = d /\ started[j] = e

\* The workflow of d went past the registry: stage 1 was entered.
Entered(d) ==
    /\ pc[d] \notin {"idle", "burn", "mark"}
    /\ ~(pc[d] = "done" /\ log[d] = <<>>)

\* C1: of two switches with the same IP and an image block, constructed one
\* after the other, only the first runs the workflow; the second returns
\* with no serial shell, no connect() and no operation on any channel.
C1_BurnedOnce ==
    \A d, e \in Nodes :
        (SameUnit(d, e) /\ Before(d, e)) =>
            /\ Entered(d)
            /\ ~Entered(e)
            /\ log[e] = <<>>
            /\ conn[e] = NoConn
            /\ serial[e] = NoSerial

\* C1 witness: the first burn failed, the second constructor returned.
C1_Witness ==
    /\ SameUnit("sw1", "sw2")
    /\ pc["sw1"] = "failed"
    /\ fail["sw1"].stage = 6
    /\ pc["sw2"] = "done"
    /\ log["sw2"] = <<>>

\* d began stage 1: its serial shell entered connect().
BeganStage1(d) == pc[d] = "s1" /\ conn[d].step # "idle"

\* C2: of two constructors for the same IP that run concurrently, at most
\* one passes the check of image_load_status and begins stage 1.
C2_AtomicCheckAndMark ==
    \A d, e \in Nodes :
        SameUnit(d, e) => ~(BeganStage1(d) /\ BeganStage1(e))

\* C3: whenever a node has entered a connect(), has an operation in its log
\* or has failed in a stage, its IP is in image_load_status: the entry is
\* there before the first channel operation and stays after a failure.
C3_MarkedBeforeStage1 ==
    \A d \in Nodes :
        (conn[d].step # "idle" \/ log[d] # <<>> \/ fail[d].stage >= 1
            \/ pc[d] \notin {"idle", "burn", "mark", "done"})
        => InStatus(attrs[d].IP)

\* C3 witness: a failure in the download stage, the entry still there.
C3_Witness ==
    \E d \in Nodes :
        /\ pc[d] = "failed"
        /\ fail[d].stage = 6
        /\ InStatus(attrs[d].IP)

\* A failure of a stage: a wait that timed out, a statement that raised, a
\* check that failed.  The first connect() of stage 1 and the waits of the
\* download loop are the two places the workflow tries again.
Fault(d, i) ==
    /\ log[d][i].res \in {"timeout", "raised", "1", "no-marker"}
    /\ ~(i = 1 /\ log[d][i] = Op(1, "serial", "connect", "raised"))
    /\ ~(log[d][i] = Op(6, "serial", "expect", "timeout"))

C5_StallDetection ==
    [][\A d \in Nodes :
        (pc[d] = "s6_wait" /\ frame'[d].timeouts = frame[d].timeouts + 1) =>
            IF frame'[d].prev_out = frame[d].out
            THEN /\ pc'[d] = "failed"
                 /\ fail'[d] = [stage |-> 6, reason |-> "Stalled"]
                 /\ frame'[d].out = frame[d].out
            ELSE /\ pc'[d] = "s6_wait"
                 /\ fail'[d] = fail[d]
                 /\ frame'[d].out = frame'[d].prev_out]_vars

\* C5 witness: a timeout with a new fragment was followed by a timeout with
\* the same fragment, and the stage failed as stalled.
C5_Witness ==
    \E d \in Nodes :
        /\ fail[d] = [stage |-> 6, reason |-> "Stalled"]
        /\ frame[d].timeouts >= 2
        /\ frame[d].out # <<>>
        /\ frame[d].prev_out = frame[d].out

\* The connect() calls of stage 1 so far, the one in progress included.
Attempts(d) ==
    Cardinality({i \in 1..Len(log[d]) :
                    log[d][i].stage = 1 /\ log[d][i].cmd = "connect"})
    + (IF pc[d] \in {"s1", "s1_retry"} /\ conn[d].step # "idle"
       THEN 1 ELSE 0)

FirstConnectFailed(d) ==
    /\ Len(log[d]) >= 1
    /\ log[d][1] = Op(1, "serial", "connect", "raised")

\* C6: once the first handshake of stage 1 has failed with a reboot command
\* configured and _reboot_switch has run, the reboot command was invoked
\* once and the handshake is tried a second time; a second handshake that
\* succeeds leads to stage 2.
C6_RebootAndRetry ==
    \A d \in Nodes :
        (FirstConnectFailed(d) /\ attrs[d].reboot_command
            /\ pc[d] # "s1_reboot")
        => /\ reboots[d] = 1
           /\ \/ pc[d] = "s1_retry"
              \/ /\ Len(log[d]) >= 2
                 /\ log[d][2].cmd = "connect"
                 /\ log[d][2].res = "ok" => fail[d].stage # 1

BothConnectsFailed(d) ==
    /\ Len(log[d]) >= 2
    /\ log[d][1] = Op(1, "serial", "connect", "raised")
    /\ log[d][2] = Op(1, "serial", "connect", "raised")

\* C7: stage 1 enters connect() at most twice and calls the reboot command
\* at most once; after two failed handshakes the workflow has failed in
\* stage 1 and no operation of stage 2 or later is in its log.
C7_AtMostTwoHandshakes ==
    \A d \in Nodes :
        /\ Attempts(d) <= 2
        /\ reboots[d] <= 1
        /\ BothConnectsFailed(d) =>
            /\ pc[d] = "failed"
            /\ fail[d] = [stage |-> 1, reason |-> "HandshakeFailed"]
            /\ \A i \in 1..Len(log[d]) : log[d][i].stage = 1

\* C7 witness: both handshakes of stage 1 failed.
C7_Witness == \E d \in Nodes : BothConnectsFailed(d) /\ Attempts(d) = 2

\* C8: an installer run whose output lacks the success marker is the last
\* operation of the workflow: it fails in stage 8, the IP stays in
\* image_load_status and nothing of stage 9 or 10 is sent.
C8_MissingMarkerIsFatal ==
    \A d \in Nodes : \A i \in 1..Len(log[d]) :
        log[d][i] = Op(8, "serial", "sh", "no-marker") =>
            /\ pc[d] = "failed"
            /\ fail[d] = [stage |-> 8, reason |-> "MissingSuccessMarker"]
            /\ InStatus(attrs[d].IP)
            /\ i = Len(log[d])
            /\ \A j \in 1..Len(log[d]) : log[d][j].stage <= 8

\* C8 witness: the installer ran and reported no success.
C8_Witness ==
    \E d \in Nodes :
        /\ Len(log[d]) > 8
        /\ log[d][Len(log[d])] = Op(8, "serial", "sh", "no-marker")

\* The answers of the channel to the races of step 1 and step 2.
Races(c) ==
    SelectSeq(c.seen, LAMBDA e : e.step \in {"step1", "step2"})

\* The three orderings on the same answers.  Already authenticated: the
\* initial prompt answers the race of step 1, and the handshake goes on to
\* the setup after authentication.  User then password: the user prompt is
\* answered with the user, and a declared password needs the password
\* prompt or the initial prompt next.  Password only: the password prompt
\* leads into the race for the password, which a declared password answers.
ValidOrdering(c) ==
    LET r == Races(c)
        PasswordRace(i) ==
            c.password /\ Len(r) >= i /\ r[i].got \in {"password", "initial"}
    IN IF c.user
       THEN /\ r # <<>>
            /\ \/ r[1].got = "initial"
               \/ r[1].got = "user" /\ (c.password => PasswordRace(2))
               \/ r[1].got = "password" /\ PasswordRace(2)
       ELSE c.password => PasswordRace(1)

\* Steps 1 and 2 are over: passed, or failed in one of the two.
RacesOver(c) ==
    \/ c.step \in {"initial", "prompt", "ok"}
    \/ /\ c.step = "fail"
       /\ c.seen[Len(c.seen)].step \in {"step1", "step2"}

\* C9: for every declaration of user and password and every answer of the
\* channel, the handshake passes steps 1 and 2 exactly when the answers are
\* one of the valid orderings.
C9_AuthenticatedIffValidOrdering ==
    \A d \in Nodes :
        LET c == conn[d]
        IN (c.step \notin {"idle", "pre"} /\ RacesOver(c)) =>
              ((c.step # "fail") <=> ValidOrdering(c))

TimedOutInStep1(c) ==
    \E i \in 1..Len(c.seen) :
        c.seen[i] = [step |-> "step1", got |-> "timeout"]

\* C10: when the race of step 1 times out, connect() fails: step 1 and the
\* steps after it send nothing and wait for nothing more.
C10_NoPromptObserved ==
    \A d \in Nodes :
        LET c == conn[d]
        IN TimedOutInStep1(c) =>
              /\ c.step = "fail"
              /\ c.seen[Len(c.seen)] = [step |-> "step1", got |-> "timeout"]
              /\ \A i \in 1..Len(c.sent) : c.sent[i].step = "pre"

\* C10 witness: the serial console was classified, then step 1 timed out.
C10_Witness ==
    \E d \in Nodes :
        /\ TimedOutInStep1(conn[d])
        /\ conn[d].user
        /\ conn[d].sent # <<>>

\* The answers "no saved configuration" of stage 10 so far.
NoConfigAnswers(d) ==
    Cardinality({i \in 1..Len(log[d]) :
        log[d][i] = Op(10, "vtysh", "show startup-config", "none")})

\* C11: when every attempt of stage 10 found no startup configuration, the
\* workflow has not failed: it disconnects vtysh and the constructor
\* returns.
C11_NoStartupConfigIsNotFatal ==
    \A d \in Nodes :
        NoConfigAnswers(d) = CreateAttempts =>
            /\ frame[d].seconds = CreateAttempts
            /\ fail[d] = NoFail
            /\ pc[d] \in {"s10_disconnect", "done"}
            /\ pc[d] = "done" =>
                  log[d][Len(log[d])] = Op(10, "vtysh", "disconnect", "ok")

\* C11 witness: the constructor returned after the last attempt found no
\* startup configuration.
C11_Witness ==
    \E d \in Nodes :
        /\ NoConfigAnswers(d) = CreateAttempts
        /\ pc[d] = "done"
        /\ fail[d] = NoFail

\* C12: the download loop is left only by a match of the rescue prompt or
\* by a detected stall, and a timeout whose fragment differs from the one
\* recorded last is followed by another wait, however many came before.
C12_LoopEndsOnMatchOrStall ==
    [][\A d \in Nodes :
        pc[d] = "s6_wait" =>
            /\ pc'[d] \in {"s6_wait", "s7", "failed"}
            /\ pc'[d] = "failed" =>
                  fail'[d] = [stage |-> 6, reason |-> "Stalled"]
            /\ pc'[d] = "s7" =>
                  log'[d][Len(log'[d])] = Op(6, "serial", "expect", "ok")
            /\ (/\ frame'[d].timeouts = frame[d].timeouts + 1
                /\ frame'[d].prev_out # frame[d].out) =>
                  pc'[d] = "s6_wait"]_vars

\* C12 witness: the loop waits again after as many timeouts as the model
\* follows, each with a fragment of its own.
C12_Witness ==
    \E d \in Nodes :
        /\ pc[d] = "s6_wait"
        /\ frame[d].timeouts = MaxTimeouts
        /\ fail[d] = NoFail

\* The last operation of the workflow of d.
LastOp(d) == log[d][Len(log[d])]

\* C13 as stated: every failure of stage 6 is a detected stall.
C13_OnlyStallsFailStage6 ==
    \A d \in Nodes : fail[d].stage = 6 => fail[d].reason = "Stalled"

\* C13, amended: in stage 6 only the wait loop is free of timeouts and fails
\* on a stall alone; the wait for the host key question and the wait for
\* the password prompt fail when their timeout expires, and the send of a
\* server password that was not declared raises.
C13_Stage6Failures ==
    \A d \in Nodes :
        fail[d].stage = 6 =>
            \/ /\ fail[d].reason = "Stalled"
               /\ LastOp(d) \in {Op(6, "serial", "expect", "timeout"),
                                 Op(6, "serial", "expect", "eof")}
            \/ /\ fail[d].reason = "Timeout"
               /\ LastOp(d) \in {Op(6, "serial", "scp", "timeout"),
                                 Op(6, "serial", "y", "timeout")}
            \/ /\ fail[d].reason = "TypeError"
               /\ LastOp(d) = Op(6, "serial", "server-password", "raised")
               /\ ~attrs[d].server_password

\* C13 witness: the host key question did not come before the timeout.
C13_Witness ==
    \E d \in Nodes :
        /\ fail[d] = [stage |-> 6, reason |-> "Timeout"]
        /\ LastOp(d) = Op(6, "serial", "scp", "timeout")

\* C18 as stated: a stall is reported only after at least two timeouts, the
\* last two with the same trailing fragment.
C18_StallNeedsTwoTimeouts ==
    \A d \in Nodes :
        fail[d] = [stage |-> 6, reason |-> "Stalled"] =>
            /\ frame[d].timeouts >= 2
            /\ frame[d].prev_out = frame[d].out

\* What the handshake sent after the classification of the console.
HandshakeSent(c) == SelectSeq(c.sent, LAMBDA e : e.step # "pre")

FirstMatchInStep1(c, what) ==
    /\ Races(c) # <<>>
    /\ Races(c)[1] = [step |-> "step1", got |-> what]

\* C19 as stated: when the initial prompt is the first match of step 1, one
\* bare newline is all the handshake sends in steps 1 and 2, and step 2
\* does not run, a declared password or not.
C19_InitialPromptSkipsStep2 ==
    \A d \in Nodes :
        LET c == conn[d]
        IN FirstMatchInStep1(c, "initial") =>
              /\ c.step # "step2"
              /\ Len(Races(c)) = 1
              /\ SelectSeq(c.sent, LAMBDA e : e.step \in {"step1", "step2"})
                    = <<[step |-> "step1", data |-> "newline"]>>

\* C20 as stated: when the password prompt is the first match of step 1,
\* the user is never sent, step 1 sends nothing for the prompt, and the
\* password goes out in the race of step 2.
C20_PasswordSentInStep2 ==
    \A d \in Nodes :
        LET c == conn[d]
        IN FirstMatchInStep1(c, "password") =>
              /\ \A i \in 1..Len(c.sent) :
                    /\ c.sent[i].data # "user"
                    /\ c.sent[i].data = "password" => c.sent[i].step = "step2"
              /\ (RacesOver(c) /\ c.step # "fail") =>
                    \E i \in 1..Len(c.sent) :
                        c.sent[i] = [step |-> "step2", data |-> "password"]

\* C20, amended: when the password prompt is the first match of step 1, the
\* user is never sent; a declared password is sent at once, in step 1, and
\* the race of step 2 follows as one more wait; with no password declared
\* connect() fails with nothing sent.
C20_PasswordPromptFirst ==
    \A d \in Nodes :
        LET c == conn[d]
        IN FirstMatchInStep1(c, "password") =>
              /\ \A i \in 1..Len(c.sent) : c.sent[i].data # "user"
              /\ IF c.password
                 THEN /\ HandshakeSent(c) # <<>>
                      /\ HandshakeSent(c)[1] =
                            [step |-> "step1", data |-> "password"]
                      /\ \/ c.step = "step2"
                         \/ /\ Len(Races(c)) >= 2
                            /\ Races(c)[2].step = "step2"
                 ELSE /\ c.step = "fail"
                      /\ HandshakeSent(c) = <<>>
                      /\ Len(Races(c)) = 1

\* C20 witness: the password went out in step 1 and the race of step 2
\* found the initial prompt.
C20_Witness ==
    \E d \in Nodes :
        /\ FirstMatchInStep1(conn[d], "password")
        /\ conn[d].password
        /\ Len(Races(conn[d])) = 2
        /\ Races(conn[d])[2] = [step |-> "step2", got |-> "initial"]
        /\ conn[d].step = "ok"

\* The positions of a word in a command line.
Positions(command, word) == {i \in 1..Len(command) : command[i] = word}

\* C16 as stated: with an identity file the command carries the identity
\* flag and the option flags, without one it carries neither.
C16_FlagsOnlyWithIdentity ==
    ssh.step = "command" =>
        IF ssh.identity_file # "none"
        THEN /\ Positions(ssh.command, "-i") # {}
             /\ Cardinality(Positions(ssh.command, "-o")) = Len(ssh.options)
        ELSE /\ Positions(ssh.command, "-i") = {}
             /\ Positions(ssh.command, "-o") = {}

\* C16, amended: the command is ssh user@host -p port, then -i and the
\* identity file exactly when one is configured, then -o and the option for
\* every option in order, an identity file configured or not.
C16_ConnectCommand ==
    ssh.step = "command" =>
        LET c == ssh.command
            k == IF ssh.identity_file # "none" THEN 2 ELSE 0
        IN /\ Len(c) = 6 + k + 2 * Len(ssh.options)
           /\ SubSeq(c, 1, 6) =
                 <<"ssh", ssh.user, "@", ssh.hostname, "-p", ssh.port>>
           /\ Positions(c, "-i") = (IF k = 2 THEN {7} ELSE {})
           /\ k = 2 => c[8] = ssh.identity_file
           /\ \A i \in 1..Len(ssh.options) :
                 /\ c[6 + k + 2 * i - 1] = "-o"
                 /\ c[6 + k + 2 * i] = ssh.options[i]

\* C16 witness: password mode, no identity file, two options.
C16_Witness ==
    /\ ssh.step = "command"
    /\ ssh.identity_file = "none"
    /\ Len(ssh.options) = 2
    /\ Positions(ssh.command, "-o") = {7, 9}

RECURSIVE ItemViolations(_, _, _, _)
RECURSIVE Violations(_, _, _)

\* Everything that is wrong with the items from the i-th on, in the order
\* the validation walks them.
ItemViolations(given, name, parent_attr, i) ==
    IF i > Len(given) THEN <<>>
    ELSE LET supp == SuppAttrs(name)
             key == given[i].key
             val == given[i].val
             attr == Append(parent_attr, key)
             k == Supported(supp, key)
             entry == supp.keys[k]
             this ==
                CASE supp.each /\ val.kind = "dict" ->
                       Violations(val.items, supp.sub, attr)
                  [] supp.each /\ val.kind # "dict" ->
                       <<Violation("AttributeError", attr)>>
                  [] ~supp.each /\ k = 0 -> <<Violation("unknown", attr)>>
                  [] ~supp.each /\ k # 0 /\ entry.pattern = "any" -> <<>>
                  [] ~supp.each /\ k # 0 /\ entry.pattern = "dict" ->
                       IF val.kind = "dict"
                       THEN Violations(val.items, entry.sub, attr)
                       ELSE IF val.kind = "none" THEN <<>>
                       ELSE <<Violation("TypeError", attr)>>
                  [] ~supp.each /\ k # 0 /\ entry.pattern = "re" ->
                       IF val.kind = "dict"
                       THEN <<Violation("TypeError", attr)>>
                       ELSE IF val.kind = "none" \/ val.ok THEN <<>>
                       ELSE <<Violation("incorrect", attr)>>
         IN this \o ItemViolations(given, name, parent_attr, i + 1)

\* Everything that is wrong with a dictionary: its items, then the
\* mandatory attributes it lacks.
Violations(given, name, parent_attr) ==
    LET supp == SuppAttrs(name)
        lacks == SelectSeq(supp.keys,
                    LAMBDA e : e.mandatory /\ ~HasKey(given, e.key))
    IN ItemViolations(given, name, parent_attr, 1)
       \o [i \in 1..Len(lacks) |->
             Violation("missing", Append(parent_attr, lacks[i].key))]

\* Nothing of the node exists: no shell, no connection, no operation, no
\* entry in image_load_status.
NothingStarted(d) ==
    /\ shells[d] = <<>>
    /\ bash[d] = <<>>
    /\ conn[d] = NoConn
    /\ serial[d] = NoSerial
    /\ log[d] = <<>>
    /\ image_load_status = <<>>

\* C15: a declaration with an unknown attribute, a missing mandatory
\* attribute or a value that does not match is rejected by the constructor
\* with the first thing that is wrong (or with the interpreter's error in
\* the preparation of the mandatory attributes), and then no shell exists,
\* no channel is open and image_load_status is untouched; a declaration
\* with nothing wrong is rejected by the interpreter's error only.
C15_RejectedBeforeSessionWork ==
    \A d \in Nodes :
        LET wrong == Violations(attrs[d], "openswitch", <<>>)
        IN /\ (wrong # <<>> /\ pc[d] # "idle") =>
                 /\ pc[d] = "failed"
                 /\ fail[d].stage = 0
                 /\ \/ fail[d].reason = "RuntimeError"
                    \/ Violation(fail[d].reason, fail[d].attr) = wrong[1]
                 /\ NothingStarted(d)
           /\ (wrong = <<>> /\ pc[d] = "failed") =>
                 fail[d].reason = "RuntimeError"

\* C15 witness: three things are wrong with the declaration, the bad value
\* that comes first is the one reported.
C15_Witness ==
    \E d \in Nodes :
        /\ Len(Violations(attrs[d], "openswitch", <<>>)) >= 3
        /\ pc[d] = "failed"
        /\ fail[d].reason = "incorrect"
        /\ NothingStarted(d)


\* The names a session of a node goes by.
SessionNames == {"vtysh", "bash", "vsctl", "serial"}

\* C14: a disconnect called on a connected session, whatever its type,
\* leaves the channel of that session closed.
C14_DisconnectCloses ==
    [][\A d \in Nodes : \A n \in SessionNames :
          (/\ pc[d] # "idle"
           /\ IF n \in {"bash", "vsctl"} THEN n \in DOMAIN bash[d] ELSE TRUE
           /\ Connected(d, n)
           /\ \E i \in (Len(log[d]) + 1)..Len(log'[d]) :
                 /\ log'[d][i].shell = n
                 /\ log'[d][i].cmd = "disconnect")
          => ~Connected(d, n)']_vars

\* The interface-up commands sent for an interface.
UpCommands(d, label) ==
    Cardinality({i \in 1..Len(log[d]) :
        /\ log[d][i].intf = label
        /\ log[d][i].cmd \in {"no shutdown", "ifconfig up"}})

\* What 'show interface' answered for an interface, "none" if not asked.
Reported(d, label) ==
    IF \E i \in 1..Len(log[d]) :
          log[d][i].intf = label /\ log[d][i].cmd = "show interface"
    THEN LET i == CHOOSE i \in 1..Len(log[d]) :
                     log[d][i].intf = label
                     /\ log[d][i].cmd = "show interface"
         IN log[d][i].res
    ELSE "none"

\* start() ran nothing of the burn: no stage command, no reboot, no mark in
\* the registry.
NoProvisioning(d) ==
    /\ image_load_status = <<>>
    /\ reboots[d] = 0
    /\ \A i \in 1..Len(log[d]) : log[d][i].stage = 0

TimesSent(c, what) ==
    Cardinality({i \in 1..Len(c.sent) : c.sent[i].data = what})

\* C21: when the user prompt is the first match of step 1, the user is sent
\* exactly once; a declared password brings the race of the password prompt
\* and the initial prompt next, no declared password brings no race; the
\* password is never sent before the user.
C21_UserPromptFirst ==
    \A d \in Nodes :
        LET c == conn[d]
        IN FirstMatchInStep1(c, "user") =>
              /\ TimesSent(c, "user") = 1
              /\ HandshakeSent(c)[1] = [step |-> "step1", data |-> "user"]
              /\ IF c.password
                 THEN \/ c.step = "step2"
                      \/ /\ Len(Races(c)) = 2
                         /\ Races(c)[2].step = "step2"
                 ELSE /\ Len(Races(c)) = 1
                      /\ c.step # "step2"
              /\ \A i \in 1..Len(c.sent) :
                    c.sent[i].data = "password" =>
                        \E j \in 1..(i - 1) : c.sent[j].data = "user"

\* C21 witness: the user went out in step 1, the password in the race of
\* step 2, and connect() returned.
C21_Witness ==
    \E d \in Nodes :
        /\ FirstMatchInStep1(conn[d], "user")
        /\ conn[d].password
        /\ Len(Races(conn[d])) = 2
        /\ Races(conn[d])[2] = [step |-> "step2", got |-> "password"]
        /\ TimesSent(conn[d], "password") = 1
        /\ conn[d].step = "ok"


\* What the handshake sent in a step.
SentIn(c, step) == SelectSeq(c.sent, LAMBDA e : e.step = step)

\* The answer of the channel to the race of step 2, "none" before it.
Step2Answer(c) ==
    LET r == SelectSeq(c.seen, LAMBDA e : e.step = "step2")
    IN IF r = <<>> THEN "none" ELSE r[1].got

\* C22: step 2 runs only with a declared password; the password prompt is
\* answered with the password, the initial prompt with a bare newline and
\* no password, and a timeout fails connect() with nothing sent.
C22_Step2 ==
    \A d \in Nodes :
        LET c == conn[d]
        IN /\ (c.step = "step2" \/ Step2Answer(c) # "none") => c.password
           /\ Len(SelectSeq(c.seen, LAMBDA e : e.step = "step2")) <= 1
           /\ SentIn(c, "step2") =
                 CASE Step2Answer(c) = "password" ->
                         <<[step |-> "step2", data |-> "password"]>>
                   [] Step2Answer(c) = "initial" ->
                         <<[step |-> "step2", data |-> "newline"]>>
                   [] OTHER -> <<>>
           /\ Step2Answer(c) = "timeout" =>
                 /\ c.step = "fail"
                 /\ c.seen[Len(c.seen)] = [step |-> "step2", got |-> "timeout"]

\* C22 witness: no user declared, and the race of step 2 found the initial
\* prompt: a newline and no password went out.
C22_Witness ==
    \E d \in Nodes :
        /\ ~conn[d].user
        /\ conn[d].password
        /\ Step2Answer(conn[d]) = "initial"
        /\ TimesSent(conn[d], "password") = 0
        /\ conn[d].step = "ok"


\* What the channel answered in a step.
SeenIn(c, step) == SelectSeq(c.seen, LAMBDA e : e.step = step)

\* C23: with an initial command configured, the command is sent once, and
\* only after the initial prompt was observed; connect() returns only after
\* the prompt the command brings was observed next; a timeout of either
\* wait fails connect(), the first one with the command not sent.
C23_InitialCommandOrder ==
    \A d \in Nodes :
        LET c == conn[d]
            ini == SeenIn(c, "initial")
            cmd == SentIn(c, "initial")
        IN /\ TimesSent(c, "initial_command") = Len(cmd)
           /\ ~c.initial_command => (cmd = <<>> /\ ini = <<>>)
           /\ c.initial_command =>
                 /\ Len(ini) <= 1
                 /\ cmd = IF ini = <<[step |-> "initial", got |-> "initial"]>>
                          THEN <<[step |-> "initial",
                                  data |-> "initial_command"]>>
                          ELSE <<>>
                 /\ (ini # <<>> /\ ini[1].got = "timeout") =>
                       (c.step = "fail" /\ SeenIn(c, "prompt") = <<>>)
                 /\ SeenIn(c, "prompt") # <<>> => cmd # <<>>
                 /\ c.step = "ok" =>
                       /\ Len(c.seen) >= 2
                       /\ c.seen[Len(c.seen) - 1] =
                             [step |-> "initial", got |-> "initial"]
                       /\ c.seen[Len(c.seen)] =
                             [step |-> "prompt", got |-> "prompt"]
                 /\ SeenIn(c, "prompt") =
                       <<[step |-> "prompt", got |-> "timeout"]>> =>
                          c.step = "fail"

\* C23 witness: the vtysh shell's handshake with user and password ran to
\* its end: initial prompt, initial command, prompt, return.
C23_Witness ==
    \E d \in Nodes :
        /\ conn[d].initial_command
        /\ conn[d].user
        /\ conn[d].password
        /\ conn[d].step = "ok"
        /\ SentIn(conn[d], "initial") # <<>>


\* The exit-status query of stage 7 answered something other than 0.
NonZeroExit(d) ==
    \E i \in 1..Len(log[d]) :
        /\ log[d][i].stage = 7
        /\ log[d][i].cmd = "echo $?"
        /\ log[d][i].res \notin {"0", "timeout"}

\* C24: when the exit-status query after the download answers anything but
\* 0, construction fails at stage 7 with that query as its last operation:
\* the installer command of stage 8 is never sent.
C24_NonZeroExitIsFatal ==
    \A d \in Nodes :
        NonZeroExit(d) =>
            /\ pc[d] = "failed"
            /\ fail[d] = [stage |-> 7, reason |-> "NonZeroExit"]
            /\ LastOp(d).stage = 7
            /\ LastOp(d).cmd = "echo $?"
            /\ \A i \in 1..Len(log[d]) :
                  log[d][i].stage <= 7 /\ log[d][i].cmd # "sh"

\* C24 witness: the download loop ended on the rescue prompt and the query
\* answered 1.
C24_Witness ==
    \E d \in Nodes :
        /\ NonZeroExit(d)
        /\ fail[d].stage = 7
        /\ \E i \in 1..Len(log[d]) : log[d][i].stage = 6


\* The promote commands stage 10 sent.
Promotes(d) ==
    Cardinality({i \in 1..Len(log[d]) :
        /\ log[d][i].stage = 10
        /\ log[d][i].cmd = "copy running-config startup-config"})

InStage10(d) ==
    pc[d] \in {"s10_copy", "s10_connect", "s10_show", "s10_disconnect"}

\* Stage 10 within its bound: at most 15 promote commands, each one after
\* the first behind a counted pause of one second, none after an answer
\* that shows a startup configuration.
Stage10Bounded ==
    \A d \in Nodes :
        /\ Promotes(d) <= CreateAttempts
        /\ frame[d].seconds <= CreateAttempts
        /\ Promotes(d) <= frame[d].seconds + 1
        /\ \A i \in 1..Len(log[d]) :
              log[d][i] = Op(10, "vtysh", "show startup-config", "saved") =>
                 \A j \in (i + 1)..Len(log[d]) :
                    log[d][j].cmd \notin
                       {"copy running-config startup-config",
                        "show startup-config"}

\* C25: stage 10 sends the promote command at most 15 times, a pause of a
\* second between two attempts, stops at the first attempt that leaves a
\* startup configuration, and always comes to an end.
C25_Stage10Terminates ==
    /\ []Stage10Bounded
    /\ \A d \in Nodes : InStage10(d) ~> (pc[d] \in {"done", "failed"})

\* C25 witness: the fifteenth attempt found no startup configuration and
\* the loop was left.
C25_Witness ==
    \E d \in Nodes :
        /\ Promotes(d) = CreateAttempts
        /\ frame[d].seconds = CreateAttempts
        /\ pc[d] = "done"


\* The last operation is one of that stage and it completed.
StageWaitCompleted(d, stage) ==
    /\ pc[d] # "failed"
    /\ log[d] # <<>>
    /\ LastOp(d).stage = stage
    /\ LastOp(d).shell = "serial"

\* C26: when the wait of stage 3, of stage 5 or of stage 9 has completed,
\* the response timeout of the serial session is the one it had when the
\* burn started, a bootloader timeout configured or not; the same holds at
\* every later point of a burn that has not failed.
C26_TimeoutRestored ==
    \A d \in Nodes :
        /\ \A stage \in {3, 5, 9} :
              StageWaitCompleted(d, stage) =>
                 serial[d].timeout = NoSerial.timeout
        /\ pc[d] # "failed" => serial[d].timeout = NoSerial.timeout

\* C26 witness: a bootloader timeout is configured and the wait of stage 9
\* has completed.
C26_Witness ==
    \E d \in Nodes :
        /\ attrs[d].bootloader_bootup_timeout # 0
        /\ attrs[d].bootloader_bootup_timeout # NoSerial.timeout
        /\ StageWaitCompleted(d, 9)
        /\ \E i \in 1..Len(log[d]) : log[d][i].stage = 5


\* The positions of a command of stage 2 in the operations of a node.
Stage2Ops(d, cmd) ==
    {i \in 1..Len(log[d]) : log[d][i].stage = 2 /\ log[d][i].cmd = cmd}

\* C27: the confirmation prompt is the expected prompt of the vtysh shell
\* only for the wait behind the erase command: once that wait has completed,
\* and so after the stage, the prompt is the one from before the stage; a
\* wait that timed out is the only way it stays.  The answer 'y' is sent
\* right after the erase command, never before it.
C27_PromptRestored ==
    \A d \in Nodes :
        /\ (\E i \in Stage2Ops(d, "erase startup-config") :
               log[d][i].res = "ok") => vtysh[d].prompt = NoVtysh.prompt
        /\ pc[d] # "failed" => vtysh[d].prompt = NoVtysh.prompt
        /\ vtysh[d].prompt # NoVtysh.prompt =>
              LastOp(d) = Op(2, "vtysh", "erase startup-config", "timeout")
        /\ \A j \in Stage2Ops(d, "y") :
              /\ j > 1
              /\ log[d][j - 1] = Op(2, "vtysh", "erase startup-config", "ok")

\* C27 witness: the stage completed: erase, answer, disconnect.
C27_Witness ==
    \E d \in Nodes :
        /\ Stage2Ops(d, "y") # {}
        /\ Stage2Ops(d, "disconnect") # {}
        /\ vtysh[d].prompt = NoVtysh.prompt
        /\ pc[d] = "s3"


\* C28: with a user declared and no password, a password prompt as the
\* first match of step 1 brings no password on the channel: the handshake
\* ends there, with nothing sent by step 1 or after it.
C28_NoPasswordToSend ==
    \A d \in Nodes :
        LET c == conn[d]
        IN (c.user /\ ~c.password /\ FirstMatchInStep1(c, "password")) =>
              /\ TimesSent(c, "password") = 0
              /\ SentIn(c, "step1") = <<>>
              /\ c.step = "fail"

\* C28 witness: the serial console was classified, then the password prompt
\* came with no password declared.
C28_Witness ==
    \E d \in Nodes :
        /\ conn[d].user
        /\ ~conn[d].password
        /\ FirstMatchInStep1(conn[d], "password")
        /\ conn[d].shell = "serial"
        /\ SentIn(conn[d], "pre") # <<>>


\* C29: in one connect() the password goes out on the channel at most once,
\* whatever steps 1 and 2 match.
C29_PasswordSentAtMostOnce ==
    \A d \in Nodes : TimesSent(conn[d], "password") <= 1


\* Nothing of the burn happened for a node.
NothingBurned(d) ==
    /\ log[d] = <<>>
    /\ serial[d] = NoSerial
    /\ conn[d] = NoConn
    /\ fail[d] = NoFail
    /\ reboots[d] = 0

\* C30: a node that declares no image block is constructed with no stage
\* run, no serial session opened and no handshake made, and its constructor
\* leaves the registry as it was.
C30_NoImageNoBurn ==
    /\ [](\A d \in Nodes :
             ~attrs[d].image =>
                 /\ pc[d] \in {"idle", "done"}
                 /\ NothingBurned(d))
    /\ [][\A d \in Nodes :
             (~attrs[d].image /\ pc'[d] # pc[d]) =>
                 /\ image_load_status' = image_load_status
                 /\ serial' = serial]_vars

\* C30 witness: after the first switch was burned, a switch of another unit
\* without an image block was constructed.
C30_Witness ==
    \E d \in Nodes :
        /\ ~attrs[d].image
        /\ pc[d] = "done"
        /\ ~InStatus(attrs[d].IP)
        /\ image_load_status # <<>>
        /\ NothingBurned(d)


\* C31: when the remote end closes the channel during the download loop,
\* the loop does not wait on: the wait that finds the channel closed and at
\* most two more raise, the last of them fails the stage as stalled, no
\* wait on the closed channel matches, and the failure always comes.
C31_ClosedChannelEndsLoop ==
    /\ [](\A d \in Nodes :
             /\ frame[d].eofs <= 3
             /\ frame[d].closed <=> frame[d].eofs >= 1
             /\ frame[d].closed =>
                   /\ pc[d] \in {"s6_wait", "failed"}
                   /\ pc[d] = "s6_wait" => frame[d].eofs <= 2
                   /\ pc[d] = "failed" =>
                         /\ fail[d] = [stage |-> 6, reason |-> "Stalled"]
                         /\ LastOp(d) = Op(6, "serial", "expect", "eof")
                   /\ LastOp(d).res # "ok")
    /\ \A d \in Nodes : frame[d].closed ~> (pc[d] = "failed")

\* C31 witness: the channel closed with output of its own in the buffer,
\* and the third wait on it failed the stage.
C31_Witness ==
    \E d \in Nodes :
        /\ frame[d].closed
        /\ frame[d].eofs = 3
        /\ pc[d] = "failed"


\* What the serial shell does for a state of the console, after its Enter.
PreSetupAnswer(got) ==
    LET Pre(what) == [step |-> "pre", data |-> what]
    IN CASE got = "login" -> <<Pre("newline")>>
         [] got = "onie" -> <<Pre("reboot"), Pre("sleep bootup")>>
         [] got = "serial_prompt" -> <<Pre("ctrl-d")>>
         [] got = "vtysh_prompt" -> <<Pre("ctrl-d"), Pre("ctrl-d")>>
         [] OTHER -> <<>>

\* C32: before the races for the credentials a serial shell sends Enter and
\* classifies the console as exactly one of login prompt, ONIE prompt,
\* shell prompt and vtysh prompt; it answers with a newline, with the reboot
\* command and a wait of the bootup duration, with one Ctrl-D or with two;
\* when none is recognised before the bootup timeout connect() fails with no
\* race run and no credential sent.  No other shell does any of it.
C32_SerialPreSetup ==
    \A d \in Nodes :
        LET c == conn[d]
            pre == SeenIn(c, "pre")
        IN /\ c.shell # "serial" => (pre = <<>> /\ SentIn(c, "pre") = <<>>)
           /\ (c.shell = "serial" /\ c.step \notin {"idle", "pre"}) =>
                 /\ Len(pre) = 1
                 /\ pre = SubSeq(c.seen, 1, 1)
                 /\ pre[1].got \in {"login", "onie", "serial_prompt",
                                    "vtysh_prompt", "timeout"}
                 /\ SentIn(c, "pre") =
                       <<[step |-> "pre", data |-> "newline"]>>
                          \o PreSetupAnswer(pre[1].got)
                 /\ SentIn(c, "pre") = SubSeq(c.sent, 1, Len(SentIn(c, "pre")))
                 /\ pre[1].got = "timeout" =>
                       /\ c.step = "fail"
                       /\ Races(c) = <<>>
                       /\ Len(c.seen) = 1
                       /\ TimesSent(c, "user") = 0
                       /\ TimesSent(c, "password") = 0
           /\ (c.shell = "serial" /\ c.step = "pre") =>
                 (c.sent = <<>> /\ c.seen = <<>>)

\* C32 witness: the console was found in ONIE, rebooted and waited for, and
\* the races for user and password ran after that.
C32_Witness ==
    \E d \in Nodes :
        /\ conn[d].shell = "serial"
        /\ SeenIn(conn[d], "pre") = <<[step |-> "pre", got |-> "onie"]>>
        /\ Len(Races(conn[d])) = 2
        /\ TimesSent(conn[d], "password") = 1
        /\ conn[d].step = "ok"

====
